---- MODULE Spec2Model ----
(***************************************************************************)
(* Viking pricing page monitor: the page validation pipeline, the batch    *)
(* and parallel test runs that drive it, and the URL manifest.             *)
(***************************************************************************)
EXTENDS Integers, Sequences, FiniteSets, TLC

VARIABLES
    page,          \* behaviour of the rendered page during one testPricingPage call
    result,        \* <<>> or <<r>>: the PricingPageResult returned by that call
    calls,         \* the page calls that call made, in order
    pricingUrls,   \* the URL list loaded from the manifest file
    results,       \* the results array of the sequential batch test
    annotations,   \* testInfo.annotations of the sequential batch test
    bpc,           \* position of the sequential batch test
    resultsJson,   \* content of config.output.resultsJson: <<>> or <<summary>>
    resultsCsv,    \* content of config.output.resultsCsv: <<>> or <<rows>>
    verdict,       \* outcome of the test run
    allResults,    \* per worker process: its module-level allResults array
    pending,       \* URL tests not yet picked up by a worker
    finished,      \* workers whose afterAll hook has run
    input,         \* the DiscoveredUrl list handed to createManifest
    manifest,      \* <<>> or <<m>>: the UrlManifest createManifest returned
    urlArrays,     \* the collections handed to mergeUrls
    merged,        \* <<>> or the lists mergeUrls returned for both orders of the collections
    rawUrl,        \* <<>> or <<u>>: a URL string handed to normalizeUrl
    normalizations,\* <<>> or <<n1, n2>>: normalizeUrl of it, and normalizeUrl of that
    options,       \* DiscoveryOptions of a runDiscovery call
    sitemapUrls,   \* what SitemapCrawler.discoverPricingUrls returned to runDiscovery
    linkUrls,      \* what LinkCrawler.discoverPricingUrls returned to runDiscovery
    allUrls,       \* the allUrls list of runDiscovery
    dpc,           \* position of runDiscovery
    site,          \* the sitemap documents: the local directory, the remote servers, the config
    spc,           \* position of SitemapCrawler.discoverPricingUrls
    roots,         \* the root documents its loop runs over
    rootPos,       \* how many of them the loop has taken up
    visitedSitemaps, \* SitemapCrawler.visitedSitemaps
    docs,          \* per document identifier: how far its processLocal/RemoteSitemap call is
    started,       \* the identifiers read or fetched, in the order the reads were issued
    discoveredUrls,\* SitemapCrawler.discoveredUrls, in insertion order
    now,           \* the clock behind new Date()
    returned,      \* <<>> or <<urls>>: what discoverPricingUrls returned
    threw,         \* an exception left discoverPricingUrls
    crawlOptions,  \* CrawlOptions of LinkCrawler.discoverPricingUrls
    lpc,           \* position of LinkCrawler.discoverPricingUrls
    browser,       \* LinkCrawler.browser: "none", "open" or "closed"
    seedPos,       \* how many seeds its loop has taken up
    visitedPages,  \* LinkCrawler.visitedPages
    crawlDiscoveredUrls, \* LinkCrawler.discoveredUrls, in insertion order
    stack,         \* the crawlPage calls that await something, outermost first
    openPages,     \* browser pages opened and not yet closed
    rendered,      \* the navigations made, in order: url, depth and how it ended
    clock,         \* the clock behind new Date() of the LinkCrawler
    crawlReturned, \* <<>> or <<urls>>: what LinkCrawler.discoverPricingUrls returned
    reportResults, \* the results array handed to writeResults
    sortedGroups   \* <<>> or <<groups>>: the failure groups writeResults printed, in order

vars == <<page, result, calls, pricingUrls, results, annotations, bpc, resultsJson, resultsCsv,
          verdict, allResults, pending, finished, input, manifest,
          urlArrays, merged, rawUrl, normalizations, options, sitemapUrls, linkUrls, allUrls, dpc,
          site, spc, roots, rootPos, visitedSitemaps, docs, started, discoveredUrls, now,
          returned, threw,
          crawlOptions, lpc, browser, seedPos, visitedPages, crawlDiscoveredUrls, stack, openPages,
          rendered, clock, crawlReturned, reportResults, sortedGroups>>

pageVars == <<page, result, calls>>
batchVars == <<pricingUrls, results, annotations, bpc, verdict>>
fileVars == <<resultsJson, resultsCsv>>
workerVars == <<allResults, pending, finished>>
manifestVars == <<input, manifest>>
mergeVars == <<urlArrays, merged>>
normalizeVars == <<rawUrl, normalizations>>
discoveryVars == <<options, sitemapUrls, linkUrls, allUrls, dpc>>
sitemapVars == <<site, spc, roots, rootPos, visitedSitemaps, docs, started, discoveredUrls, now,
                 returned, threw>>
linkVars == <<crawlOptions, lpc, browser, seedPos, visitedPages, crawlDiscoveredUrls, stack,
              openPages, rendered, clock, crawlReturned>>
crawlerVars == <<mergeVars, normalizeVars, discoveryVars, sitemapVars, linkVars>>
reportVars == <<reportResults, sortedGroups>>

(***************************************************************************)
(* Sequence helpers                                                        *)
(***************************************************************************)
Last(s) == s[Len(s)]

Front(s) == SubSeq(s, 1, Len(s) - 1)

Range(s) == {s[i] : i \in 1..Len(s)}

SeqsUpTo(S, n) == UNION {[1..k -> S] : k \in 0..n}

RECURSIVE FilterSeq(_, _)
\* Array.prototype.filter for a predicate given as the set of kept elements
FilterSeq(s, keep) ==
    IF s = <<>> THEN <<>>
    ELSE IF s[1] \in keep THEN <<s[1]>> \o FilterSeq(Tail(s), keep)
         ELSE FilterSeq(Tail(s), keep)

(***************************************************************************)
(* testPricingPage                                                         *)
(***************************************************************************)
LoadTimeLimit == 10000

\* the pages under test: url and domain of a DiscoveredUrl
SampleUrls == {
    [url |-> "https://www.viking.com/cruises/ocean/a/pricing.html", domain |-> "www.viking.com"],
    [url |-> "https://www.vikingcruises.com/oceans/b/pricing.html", domain |-> "www.vikingcruises.com"] }

\* what the browser does while one URL is validated
PageBehaviours ==
    [ goto : {"throw", "null", "200", "404", "500"},   \* page.goto: rejects, no response, or a status
      navMs : {LoadTimeLimit - 1, LoadTimeLimit},      \* time until goto returned
      restMs : {0, 1},                                 \* time spent after the load-time check
      waitRejects : BOOLEAN,                           \* waitForLoadState('networkidle') rejects
      panel : {"absent", "hidden", "visible", "throw"},\* #pricing-unavailable
      errText : BOOLEAN,                               \* a known error text is visible
      dates : {"found", "none", "throw"},
      prices : {"found", "none", "throw"},
      stateroom : {"found", "none", "throw"},
      cta : {"found", "none"},
      jsErrors : 0..1,                                 \* viking page errors collected
      shot : {"ok", "throw"} ]                         \* page.screenshot / testInfo.attach

Check(name, passed, details) == [name |-> name, passed |-> passed, details |-> details]

HttpStatusOf(b) ==
    CASE b.goto = "200" -> 200
      [] b.goto = "404" -> 404
      [] b.goto = "500" -> 500
      [] OTHER -> 0

HttpError(status) ==
    CASE status = 404 -> "HTTP 404"
      [] status = 500 -> "HTTP 500"
      [] OTHER -> "HTTP 0"

\* a content check either returns a CheckResult or throws
Returned(c) == [throws |-> FALSE, check |-> c, msg |-> ""]

Thrown(m) == [throws |-> TRUE, check |-> Check("", FALSE, ""), msg |-> m]

checkForErrorMessages(b) ==
    CASE b.panel = "throw" -> Thrown("locator.count: Target closed")
      [] b.panel = "visible" ->
            Returned(Check("No error messages", FALSE, "Unavailable panel visible: Call for fares"))
      [] b.errText ->
            Returned(Check("No error messages", FALSE, "Found visible: no available sailings"))
      [] OTHER -> Returned(Check("No error messages", TRUE, "No visible error messages found"))

checkDepartureDates(b) ==
    CASE b.dates = "throw" -> Thrown("page.textContent: Timeout 5000ms exceeded")
      [] b.dates = "found" -> Returned(Check("Departure dates visible", TRUE, "Found date"))
      [] OTHER -> Returned(Check("Departure dates visible", FALSE, "No departure dates found"))

checkPriceValues(b) ==
    CASE b.prices = "throw" -> Thrown("page.textContent: Timeout 5000ms exceeded")
      [] b.prices = "found" -> Returned(Check("Valid prices present", TRUE, "Found price"))
      [] OTHER -> Returned(Check("Valid prices present", FALSE, "No valid prices found (all $0 or empty)"))

checkStateroomCategories(b) ==
    CASE b.stateroom = "throw" -> Thrown("page.textContent: Timeout 5000ms exceeded")
      [] b.stateroom = "found" -> Returned(Check("Stateroom categories displayed", TRUE, "Found keyword"))
      [] OTHER -> Returned(Check("Stateroom categories displayed", FALSE, "No stateroom categories found"))

\* every locator call of checkCTAButton is inside its own try/catch
checkCTAButton(b) ==
    IF b.cta = "found"
    THEN Returned(Check("Booking CTA exists", TRUE, "Found CTA"))
    ELSE Returned(Check("Booking CTA exists", FALSE, "No booking CTA found"))

\* the locals of one call: checks, errors, warnings, httpStatus, the page
\* calls made so far, and the exception in flight (<<>> when none)
StartOfCall ==
    [checks |-> <<>>, errors |-> <<>>, warnings |-> <<>>, httpStatus |-> 0,
     calls |-> <<>>, thrown |-> <<>>, screenshotPath |-> <<>>]

Raise(s, call, m) == [s EXCEPT !.calls = Append(@, call), !.thrown = <<m>>]

\* Check 1 and 2: navigation, HTTP status, load time
Navigate(s, b) ==
    IF b.goto = "throw" THEN Raise(s, "goto", "page.goto: Timeout 10000ms exceeded")
    ELSE LET httpStatus == HttpStatusOf(b)
             loadTimeMs == b.navMs
         IN [s EXCEPT
               !.calls = Append(@, "goto"),
               !.httpStatus = httpStatus,
               !.checks = @ \o << Check("HTTP Status 200", httpStatus = 200, "Status"),
                                  Check("Load time < 10s", loadTimeMs < LoadTimeLimit, "ms") >>,
               !.errors = IF httpStatus # 200 THEN Append(@, HttpError(httpStatus)) ELSE @,
               !.warnings = IF loadTimeMs >= LoadTimeLimit THEN Append(@, "Slow load") ELSE @]

\* a guard that lets the content checks run on every response
RunsContentChecksAlways(httpStatus) == TRUE

\* the guard of the content checks
RunsContentChecks(httpStatus) == httpStatus = 200

\* await page.waitForLoadState('networkidle').catch(() => {})
WaitForLoadState(s, b) ==
    IF s.thrown # <<>> THEN s
    ELSE IF b.waitRejects
         THEN [s EXCEPT !.calls = Append(@, "waitForLoadState")]   \* rejection swallowed
         ELSE [s EXCEPT !.calls = Append(@, "waitForLoadState")]

\* a critical content check that records its failure in the checks only
CriticalStepSilent(s, call, outcome, error) ==
    IF s.thrown # <<>> THEN s
    ELSE IF outcome.throws THEN Raise(s, call, outcome.msg)
    ELSE [s EXCEPT !.calls = Append(@, call), !.checks = Append(@, outcome.check)]

\* one critical content check: push the check, push an error when it failed
CriticalStep(s, call, outcome, error) ==
    IF s.thrown # <<>> THEN s
    ELSE IF outcome.throws THEN Raise(s, call, outcome.msg)
    ELSE [s EXCEPT
            !.calls = Append(@, call),
            !.checks = Append(@, outcome.check),
            !.errors = IF outcome.check.passed THEN @ ELSE Append(@, error)]

\* one warning-only content check: push the check, push a warning when it failed
WarningStep(s, call, outcome, warning) ==
    IF s.thrown # <<>> THEN s
    ELSE IF outcome.throws THEN Raise(s, call, outcome.msg)
    ELSE [s EXCEPT
            !.calls = Append(@, call),
            !.checks = Append(@, outcome.check),
            !.warnings = IF outcome.check.passed THEN @ ELSE Append(@, warning)]

\* Check 8: the collected page errors
JsErrorStep(s, b) ==
    IF s.thrown # <<>> THEN s
    ELSE [s EXCEPT
            !.checks = Append(@, Check("No Viking JS errors", b.jsErrors = 0,
                                       IF b.jsErrors > 0 THEN "errors" ELSE "Clean")),
            !.warnings = IF b.jsErrors > 0 THEN Append(@, "JS errors") ELSE @]

ContentChecks(s, b) ==
    IF s.thrown # <<>> \/ ~RunsContentChecks(s.httpStatus) THEN s
    ELSE LET s0 == WaitForLoadState(s, b)
             e == checkForErrorMessages(b)
             s3 == CriticalStep(s0, "checkForErrorMessages", e, e.check.details)
             s4 == CriticalStep(s3, "checkDepartureDates", checkDepartureDates(b),
                                "No departure dates found")
             s5 == CriticalStep(s4, "checkPriceValues", checkPriceValues(b),
                                "No valid prices found")
             s6 == WarningStep(s5, "checkStateroomCategories", checkStateroomCategories(b),
                               "No stateroom categories found")
             s7 == WarningStep(s6, "checkCTAButton", checkCTAButton(b), "No booking CTA found")
         IN JsErrorStep(s7, b)

\* filesystem-safe name of the screenshot of a URL
ScreenshotPath(url) == [dir |-> "screenshots", name |-> url, ext |-> ".png"]

\* const hasFailures = checks.some((c) => !c.passed)
HasFailures(checks) == \E i \in 1..Len(checks) : ~checks[i].passed

\* take and attach a screenshot if any check failed
Screenshot(s, b, urlInfo) ==
    IF s.thrown # <<>> \/ ~HasFailures(s.checks) THEN s
    ELSE IF b.shot = "throw" THEN Raise(s, "screenshot", "page.screenshot: Target closed")
    ELSE [s EXCEPT !.calls = Append(@, "screenshot"),
                   !.screenshotPath = <<ScreenshotPath(urlInfo.url)>>]

\* a critical list that forgets the price check
CriticalChecksWithoutPrices ==
    {"HTTP Status 200", "No error messages", "Departure dates visible"}

\* the check names that decide pass/fail
CriticalChecks ==
    {"HTTP Status 200", "No error messages", "Departure dates visible", "Valid prices present"}

CriticalChecksFailed(checks) ==
    \E i \in 1..Len(checks) : checks[i].name \in CriticalChecks /\ ~checks[i].passed

\* the return of the try block
NormalResult(urlInfo, s, b) ==
    [url |-> urlInfo.url, domain |-> urlInfo.domain,
     passed |-> ~CriticalChecksFailed(s.checks),
     loadTimeMs |-> b.navMs + b.restMs,
     httpStatus |-> s.httpStatus,
     checks |-> s.checks, errors |-> s.errors, warnings |-> s.warnings,
     screenshotPath |-> s.screenshotPath]

\* a catch block that appends the failing check to the checks made so far
CatchResultKeepingChecks(urlInfo, s, b) ==
    [url |-> urlInfo.url, domain |-> urlInfo.domain,
     passed |-> FALSE,
     loadTimeMs |-> b.navMs + b.restMs,
     httpStatus |-> s.httpStatus,
     checks |-> Append(s.checks, Check("Page load", FALSE, s.thrown[1])),
     errors |-> Append(s.errors, s.thrown[1]), warnings |-> s.warnings,
     screenshotPath |-> <<>>]

\* the return of the catch block
CatchResult(urlInfo, s, b) ==
    [url |-> urlInfo.url, domain |-> urlInfo.domain,
     passed |-> FALSE,
     loadTimeMs |-> b.navMs + b.restMs,
     httpStatus |-> s.httpStatus,
     checks |-> <<Check("Page load", FALSE, s.thrown[1])>>,
     errors |-> Append(s.errors, s.thrown[1]), warnings |-> s.warnings,
     screenshotPath |-> <<>>]

\* the locals when the function leaves the try block
EndOfTry(urlInfo, b) ==
    Screenshot(ContentChecks(Navigate(StartOfCall, b), b), b, urlInfo)

testPricingPage(urlInfo, b) ==
    LET s == EndOfTry(urlInfo, b)
    IN IF s.thrown # <<>> THEN CatchResult(urlInfo, s, b) ELSE NormalResult(urlInfo, s, b)

\* the page calls one validation made, in order
PageCalls(urlInfo, b) == EndOfTry(urlInfo, b).calls

(***************************************************************************)
(* Validation of one page                                                  *)
(***************************************************************************)
BatchIdle ==
    /\ pricingUrls = <<>> /\ results = <<>> /\ annotations = <<>>
    /\ bpc = "idle" /\ verdict = "none"

FilesIdle == resultsJson = <<>> /\ resultsCsv = <<>>

WorkersIdle == allResults = <<>> /\ pending = {} /\ finished = {}

ManifestIdle == input = <<>> /\ manifest = <<>>

PageIdle == page = <<>> /\ result = <<>> /\ calls = <<>>

MergeIdle == urlArrays = <<>> /\ merged = <<>>

NormalizeIdle == rawUrl = <<>> /\ normalizations = <<>>

DiscoveryIdle ==
    /\ options = <<>> /\ sitemapUrls = <<>> /\ linkUrls = <<>> /\ allUrls = <<>>
    /\ dpc = "idle"

SitemapIdle ==
    /\ site = <<>> /\ spc = "idle" /\ roots = <<>> /\ rootPos = 0
    /\ visitedSitemaps = {} /\ docs = <<>> /\ started = <<>> /\ discoveredUrls = <<>>
    /\ now = 0 /\ returned = <<>> /\ threw = FALSE

LinkIdle ==
    /\ crawlOptions = <<>> /\ lpc = "idle" /\ browser = "none" /\ seedPos = 0
    /\ visitedPages = {} /\ crawlDiscoveredUrls = <<>> /\ stack = <<>> /\ openPages = 0
    /\ rendered = <<>> /\ clock = 0 /\ crawlReturned = <<>>

CrawlersIdle == MergeIdle /\ NormalizeIdle /\ DiscoveryIdle /\ SitemapIdle /\ LinkIdle

ReportIdle == reportResults = <<>> /\ sortedGroups = <<>>

InitPage ==
    /\ page = <<>>
    /\ result = <<>>
    /\ calls = <<>>
    /\ BatchIdle /\ FilesIdle /\ WorkersIdle /\ ManifestIdle /\ CrawlersIdle /\ ReportIdle

\* one call of testPricingPage on a freshly opened page
Validate ==
    /\ result = <<>>
    /\ \E urlInfo \in SampleUrls, b \in PageBehaviours :
          /\ page' = <<b>>
          /\ result' = <<testPricingPage(urlInfo, b)>>
          /\ calls' = PageCalls(urlInfo, b)
    /\ UNCHANGED <<batchVars, fileVars, workerVars, manifestVars, crawlerVars, reportVars>>

NextPage == Validate

SpecPage == InitPage /\ [][NextPage]_vars

(***************************************************************************)
(* Properties of one validated page                                        *)
(***************************************************************************)
CriticalNames ==
    {"HTTP Status 200", "No error messages", "Departure dates visible", "Valid prices present"}

ContentNames ==
    {"No error messages", "Departure dates visible", "Valid prices present",
     "Stateroom categories displayed", "Booking CTA exists", "No Viking JS errors"}

ContentCalls ==
    {"waitForLoadState", "checkForErrorMessages", "checkDepartureDates", "checkPriceValues",
     "checkStateroomCategories", "checkCTAButton"}

AllPassed(r, names) ==
    \A i \in 1..Len(r.checks) : r.checks[i].name \in names => r.checks[i].passed

HasFailedCheck(r) == \E i \in 1..Len(r.checks) : ~r.checks[i].passed

HasCheck(r, name, passed) ==
    \E i \in 1..Len(r.checks) : r.checks[i].name = name /\ r.checks[i].passed = passed

\* the result of the catch block: exactly one failing 'Page load' check
IsPageLoadFailure(r) ==
    /\ Len(r.checks) = 1
    /\ r.checks[1].name = "Page load"
    /\ ~r.checks[1].passed

UrlInfoOf(r) == CHOOSE u \in SampleUrls : u.url = r.url

\* the behaviours that differ from b in the warning-only outcomes only
WarningVariants(b) ==
    {[b EXCEPT !.navMs = n, !.stateroom = st, !.cta = c, !.jsErrors = j] :
        n \in {LoadTimeLimit - 1, LoadTimeLimit}, st \in {"found", "none"},
        c \in {"found", "none"}, j \in 0..1}

\* which step of the call threw, as the page behaved
GotoThrew(b) == b.goto = "throw"

WaitThrew(b) == b.goto = "200" /\ b.waitRejects

ContentCheckThrew(b) ==
    /\ b.goto = "200"
    /\ "throw" \in {b.panel, b.dates, b.prices, b.stateroom}

SomeCheckFails(b) ==
    \/ b.goto # "200"
    \/ b.navMs >= LoadTimeLimit
    \/ b.panel = "visible" \/ b.errText
    \/ "none" \in {b.dates, b.prices, b.stateroom, b.cta}
    \/ b.jsErrors > 0

ScreenshotThrew(b) ==
    /\ ~GotoThrew(b) /\ ~ContentCheckThrew(b)
    /\ SomeCheckFails(b)
    /\ b.shot = "throw"

\* C1 as stated: passed iff every check named as critical passed, on the
\* normal path and on the exception path alike.
C1_PassedIffFourCriticalPassed ==
    result # <<>> => (result[1].passed <=> AllPassed(result[1], CriticalNames))

\* C1 amended: passed is true iff no check named 'HTTP Status 200', 'No error
\* messages', 'Departure dates visible', 'Valid prices present' or 'Page load'
\* has failed; and two runs that return from the try block and differ only
\* in the outcomes of the warning-only checks agree on passed.
C1_PassedIffCriticalAndPageLoadPassed ==
    result # <<>> =>
        LET r == result[1] IN
        /\ r.passed <=> AllPassed(r, CriticalNames \cup {"Page load"})
        /\ ~IsPageLoadFailure(r) =>
              \A v \in WarningVariants(page[1]) :
                 LET r2 == testPricingPage(UrlInfoOf(r), v)
                 IN ~IsPageLoadFailure(r2) => r2.passed = r.passed

\* a page that passed although warning-only checks failed
C1_Witness ==
    /\ result # <<>>
    /\ result[1].passed
    /\ HasCheck(result[1], "Stateroom categories displayed", FALSE)
    /\ HasCheck(result[1], "Load time < 10s", FALSE)

\* C2 as stated: whichever step throws (navigation, waiting, a content check,
\* the screenshot), the result is passed=false with the single failing
\* 'Page load' check and the exception message among the errors.
C2_AnyThrowGivesPageLoadFailure ==
    result # <<>> =>
        LET r == result[1]
            b == page[1]
        IN (GotoThrew(b) \/ WaitThrew(b) \/ ContentCheckThrew(b) \/ ScreenshotThrew(b)) =>
              /\ ~r.passed
              /\ IsPageLoadFailure(r)
              /\ r.checks[1].details \in Range(r.errors)

\* C2 amended: a throw of navigation, of a content check or of the screenshot
\* capture gives passed=false, the single failing 'Page load' check and the
\* exception message among the errors; a rejected network-idle wait is
\* swallowed and, nothing else throwing, the call returns from the try block
\* with the 'HTTP Status 200' check first.
C2_ThrowGivesPageLoadFailureWaitSwallowed ==
    result # <<>> =>
        LET r == result[1]
            b == page[1]
        IN /\ (GotoThrew(b) \/ ContentCheckThrew(b) \/ ScreenshotThrew(b)) =>
                 /\ ~r.passed
                 /\ IsPageLoadFailure(r)
                 /\ r.checks[1].details # ""
                 /\ r.checks[1].details \in Range(r.errors)
           /\ (~GotoThrew(b) /\ ~ContentCheckThrew(b) /\ ~ScreenshotThrew(b)) =>
                 /\ ~IsPageLoadFailure(r)
                 /\ r.checks[1].name = "HTTP Status 200"

\* a content check threw after two checks had been recorded
C2_Witness ==
    /\ result # <<>>
    /\ page[1].goto = "200" /\ page[1].panel = "hidden" /\ page[1].dates = "throw"
    /\ IsPageLoadFailure(result[1])

\* C3 as stated: a screenshot path is present iff some check of the result
\* failed, the failing 'Page load' check of the exception path included.
C3_ScreenshotIffFailedCheck ==
    result # <<>> => (HasFailedCheck(result[1]) <=> result[1].screenshotPath # <<>>)

\* C4 as stated: on a status other than 200 no content check runs or is
\* recorded, and the result has a failing 'HTTP Status 200' check and
\* passed=false.
C4_Non200SkipsContentChecks ==
    (result # <<>> /\ page[1].goto \in {"null", "404", "500"}) =>
        LET r == result[1] IN
        /\ Range(calls) \cap ContentCalls = {}
        /\ \A i \in 1..Len(r.checks) : r.checks[i].name \notin ContentNames
        /\ HasCheck(r, "HTTP Status 200", FALSE)
        /\ ~r.passed

\* C4 amended: on a status other than 200 no content check runs or is
\* recorded and passed=false; the result has a failing 'HTTP Status 200'
\* check unless the screenshot capture throws, and then its checks are the
\* single failing 'Page load' check.
C4_Non200SkipsContentChecksUnlessShotThrows ==
    (result # <<>> /\ page[1].goto \in {"null", "404", "500"}) =>
        LET r == result[1] IN
        /\ Range(calls) \cap ContentCalls = {}
        /\ \A i \in 1..Len(r.checks) : r.checks[i].name \notin ContentNames
        /\ ~r.passed
        /\ IF page[1].shot = "throw"
           THEN IsPageLoadFailure(r)
           ELSE HasCheck(r, "HTTP Status 200", FALSE) /\ r.screenshotPath # <<>>

\* a 404 whose screenshot was taken
C4_Witness ==
    /\ result # <<>>
    /\ result[1].httpStatus = 404
    /\ HasCheck(result[1], "HTTP Status 200", FALSE)
    /\ Len(result[1].checks) = 2

\* the strings the warning-only checks push
WarningStrings == {"Slow load", "No stateroom categories found", "No booking CTA found", "JS errors"}

\* the failed checks of a result whose name is among names
FailedChecks(r, names) == {i \in 1..Len(r.checks) : r.checks[i].name \in names /\ ~r.checks[i].passed}

\* C35: result.passed is true iff result.errors is empty. On the normal
\* path every failed critical check has pushed one error string, a caught
\* exception has pushed one more, and the failed warning-only checks have
\* pushed to result.warnings only.
C35_PassedIffNoErrors ==
    result # <<>> =>
        LET r == result[1]
        IN /\ r.passed <=> r.errors = <<>>
           /\ Range(r.errors) \cap WarningStrings = {}
           /\ Range(r.warnings) \subseteq WarningStrings
           /\ ~IsPageLoadFailure(r) =>
                 /\ Len(r.errors) = Cardinality(FailedChecks(r, CriticalNames))
                 /\ Len(r.warnings) =
                       Cardinality(FailedChecks(r, (ContentNames \cup {"Load time < 10s"}) \ CriticalNames))
           /\ IsPageLoadFailure(r) => r.errors # <<>> /\ Last(r.errors) = r.checks[1].details

\* a page without departure dates and without stateroom categories that
\* loaded slowly: one error, two warnings, not passed
C35_Witness ==
    /\ result # <<>>
    /\ ~result[1].passed
    /\ result[1].errors = <<"No departure dates found">>
    /\ result[1].warnings = <<"Slow load", "No stateroom categories found">>
    /\ Len(result[1].checks) = 8

\* C39: on the path without exception the reported loadTimeMs agrees with
\* the load-time check: the check 'Load time < 10s' passed iff loadTimeMs is
\* below the limit, and the warning 'Slow load' is present iff it is not.
C39_LoadTimeAgreesWithCheck ==
    (result # <<>> /\ ~IsPageLoadFailure(result[1])) =>
        /\ HasCheck(result[1], "Load time < 10s", TRUE) <=> result[1].loadTimeMs < LoadTimeLimit
        /\ "Slow load" \in Range(result[1].warnings) <=> result[1].loadTimeMs >= LoadTimeLimit

(***************************************************************************)
(* writeResults                                                            *)
(***************************************************************************)
RECURSIVE SumLoadTime(_)
SumLoadTime(rs) == IF rs = <<>> THEN 0 ELSE rs[1].loadTimeMs + SumLoadTime(Tail(rs))

PassedOf(rs) == {r \in Range(rs) : r.passed}

FailedOf(rs) == {r \in Range(rs) : ~r.passed}

\* the quotient sum / length as the pair <<sum, length>> without the || 0
AvgLoadTimeMsUnguarded(rs) == <<SumLoadTime(rs), Len(rs)>>

\* the quotient sum / length as the pair <<sum, length>>; NaN || 0 is <<0, 1>>
AvgLoadTimeMs(rs) == IF Len(rs) = 0 THEN <<0, 1>> ELSE <<SumLoadTime(rs), Len(rs)>>

\* the summary object serialised to results.json
Summary(rs) ==
    [totalTested |-> Len(rs),
     passed |-> Len(FilterSeq(rs, PassedOf(rs))),
     failed |-> Len(FilterSeq(rs, FailedOf(rs))),
     warnings |-> Len(FilterSeq(rs, {r \in Range(rs) : r.warnings # <<>>})),
     avgLoadTimeMs |-> AvgLoadTimeMs(rs),
     results |-> rs]

\* one CSV row per result
CsvRows(rs) ==
    [i \in 1..Len(rs) |->
        <<rs[i].url, rs[i].domain, rs[i].passed, rs[i].loadTimeMs, rs[i].httpStatus,
          rs[i].errors, rs[i].warnings>>]

\* both files are overwritten
WriteResults(rs) ==
    /\ resultsJson' = <<Summary(rs)>>
    /\ resultsCsv' = <<CsvRows(rs)>>

(***************************************************************************)
(* The sequential batch test 'All pricing pages pass validation'           *)
(***************************************************************************)
MaxUrls == 3

GoodPage ==
    [goto |-> "200", navMs |-> LoadTimeLimit - 1, restMs |-> 0, waitRejects |-> FALSE,
     panel |-> "absent", errText |-> FALSE, dates |-> "found", prices |-> "found",
     stateroom |-> "found", cta |-> "found", jsErrors |-> 0, shot |-> "ok"]

\* the per-URL outcomes of a batch: pass, warning only, critical failure,
\* 404, 404 whose screenshot fails, navigation exception
BatchBehaviours ==
    { GoodPage,
      [GoodPage EXCEPT !.stateroom = "none"],
      [GoodPage EXCEPT !.prices = "none"],
      [GoodPage EXCEPT !.goto = "404"],
      [GoodPage EXCEPT !.goto = "404", !.shot = "throw"],
      [GoodPage EXCEPT !.goto = "throw"] }

FallbackUrls ==
    << [url |-> "https://www.viking.com/cruises/ocean/viking-sky/british-isles-explorer/pricing.html",
        domain |-> "www.viking.com"] >>

InitBatch ==
    /\ pricingUrls = <<>>
    /\ results = <<>>
    /\ annotations = <<>>
    /\ bpc = "beforeAll"
    /\ verdict = "running"
    /\ FilesIdle /\ PageIdle /\ WorkersIdle /\ ManifestIdle /\ CrawlersIdle /\ ReportIdle

\* test.beforeAll: the manifest's urls, or the sample URL when it cannot be read
BeforeAll ==
    /\ bpc = "beforeAll"
    /\ \/ \E urls \in SeqsUpTo(SampleUrls, MaxUrls) : pricingUrls' = urls
       \/ pricingUrls' = FallbackUrls
    /\ bpc' = "test"
    /\ UNCHANGED <<results, annotations, verdict, fileVars, pageVars, workerVars, manifestVars, crawlerVars, reportVars>>

\* the test skips when there is no URL
TestStart ==
    /\ bpc = "test"
    /\ IF Len(pricingUrls) = 0
       THEN bpc' = "done" /\ verdict' = "skipped"
       ELSE bpc' = "loop" /\ verdict' = verdict
    /\ UNCHANGED <<pricingUrls, results, annotations, fileVars, pageVars, workerVars, manifestVars, crawlerVars, reportVars>>

\* a loop that also stops at the first failed page
ForLoopDoneOrFailed(rs, urls) ==
    Len(rs) >= Len(urls) \/ (rs # <<>> /\ ~Last(rs).passed)

\* for (const urlInfo of pricingUrls): no element is left
ForLoopDone(rs, urls) == Len(rs) >= Len(urls)

\* one iteration: validate the next URL, push the result, annotate a failure
LoopStep ==
    /\ bpc = "loop"
    /\ ~ForLoopDone(results, pricingUrls)
    /\ \E b \in BatchBehaviours :
          LET urlInfo == pricingUrls[Len(results) + 1]
              r == testPricingPage(urlInfo, b)
          IN /\ results' = Append(results, r)
             /\ annotations' = IF r.passed THEN annotations
                                ELSE Append(annotations, <<urlInfo.url, r.errors>>)
    /\ UNCHANGED <<pricingUrls, bpc, verdict, fileVars, pageVars, workerVars, manifestVars, crawlerVars, reportVars>>

\* after the loop: writeResults, then the summary is attached
WriteAndAttach ==
    /\ bpc = "loop"
    /\ ForLoopDone(results, pricingUrls)
    /\ WriteResults(results)
    /\ bpc' = "assert"
    /\ UNCHANGED <<pricingUrls, results, annotations, verdict, pageVars, workerVars, manifestVars, crawlerVars, reportVars>>

\* a verdict that fails the run only when every page failed
RunVerdictAllFailed(rs) ==
    IF rs # <<>> /\ PassedOf(rs) = {} THEN "failed" ELSE "passed"

\* expect(failedPages.length).toBe(0) when failedPages.length > 0
RunVerdict(rs) ==
    IF Len(FilterSeq(rs, FailedOf(rs))) > 0 THEN "failed" ELSE "passed"

FinalAssertion ==
    /\ bpc = "assert"
    /\ verdict' = RunVerdict(results)
    /\ bpc' = "done"
    /\ UNCHANGED <<pricingUrls, results, annotations, fileVars, pageVars, workerVars, manifestVars, crawlerVars, reportVars>>

NextBatch == BeforeAll \/ TestStart \/ LoopStep \/ WriteAndAttach \/ FinalAssertion

SpecBatch == InitBatch /\ [][NextBatch]_vars

(***************************************************************************)
(* Properties of the sequential batch                                      *)
(***************************************************************************)
\* C5: the loop validates every URL: once it has ended the results are one
\* per manifest URL in manifest order, whatever the outcomes were, and
\* while it runs the results are a prefix of that list.
C5_OneResultPerUrlInOrder ==
    /\ Len(results) <= Len(pricingUrls)
    /\ \A i \in 1..Len(results) :
          results[i].url = pricingUrls[i].url /\ results[i].domain = pricingUrls[i].domain
    /\ bpc \in {"assert", "done"} => Len(results) = Len(pricingUrls)

\* a run whose first URL threw and whose second URL failed, with a third validated after them
C5_Witness ==
    /\ bpc = "done"
    /\ Len(results) = 3
    /\ IsPageLoadFailure(results[1])
    /\ ~results[2].passed
    /\ results[3].passed

\* the report holds every result of the run, in both files
ReportComplete ==
    /\ resultsJson # <<>> /\ resultsCsv # <<>>
    /\ resultsJson[1].results = results
    /\ Len(resultsCsv[1]) = Len(results)
    /\ \A i \in 1..Len(results) : resultsCsv[1][i][1] = results[i].url

NumWorkers == 2

Workers == 1..NumWorkers

\* the per-URL outcomes of a parallel run: pass, critical failure, exception
WorkerBehaviours ==
    { GoodPage, [GoodPage EXCEPT !.prices = "none"], [GoodPage EXCEPT !.goto = "throw"] }

\* every worker process loads the test file: the same URL list, and an
\* allResults array of its own
InitWorkers ==
    /\ \/ \E urls \in SeqsUpTo(SampleUrls, MaxUrls) :
             /\ Len(urls) > 0
             /\ \A i, j \in 1..Len(urls) : urls[i] = urls[j] => i = j   \* test titles are unique
             /\ pricingUrls = urls
       \/ pricingUrls = FallbackUrls
    /\ allResults = [w \in Workers |-> <<>>]
    /\ pending = 1..Len(pricingUrls)
    /\ finished = {}
    /\ results = <<>>
    /\ annotations = <<>>
    /\ bpc = "parallel"
    /\ verdict = "running"
    /\ FilesIdle /\ PageIdle /\ ManifestIdle /\ CrawlersIdle /\ ReportIdle

\* test(`Pricing: ...`) of URL i, run by worker w
RunTest(w, i) ==
    /\ w \notin finished
    /\ i \in pending
    /\ \E b \in WorkerBehaviours :
          LET r == testPricingPage(pricingUrls[i], b)
          IN /\ allResults' = [allResults EXCEPT ![w] = Append(@, r)]
             /\ verdict' = IF r.passed THEN verdict ELSE "failed"
    /\ pending' = pending \ {i}
    /\ UNCHANGED <<pricingUrls, results, annotations, bpc, finished, fileVars, pageVars, manifestVars, crawlerVars, reportVars>>

\* test.afterAll in worker w, once no test is left for it
AfterAll(w) ==
    /\ w \notin finished
    /\ pending = {}
    /\ IF Len(allResults[w]) > 0
       THEN WriteResults(allResults[w])
       ELSE UNCHANGED fileVars
    /\ finished' = finished \cup {w}
    /\ UNCHANGED <<pricingUrls, results, annotations, bpc, verdict, allResults, pending,
                   pageVars, manifestVars, crawlerVars, reportVars>>

\* the run ends when every worker has stopped
RunEnd ==
    /\ bpc = "parallel"
    /\ finished = Workers
    /\ bpc' = "done"
    /\ verdict' = IF verdict = "failed" THEN "failed" ELSE "passed"
    /\ UNCHANGED <<pricingUrls, results, annotations, allResults, pending, finished,
                   fileVars, pageVars, manifestVars, crawlerVars, reportVars>>

NextWorkers ==
    \/ \E w \in Workers, i \in 1..MaxUrls : RunTest(w, i)
    \/ \E w \in Workers : AfterAll(w)
    \/ RunEnd

SpecWorkers == InitWorkers /\ [][NextWorkers]_vars

\* C7: no append is lost: when all workers have finished and written their
\* summary, the persisted results document holds exactly one result for
\* every URL validated in the run.
C7_PersistedResultsCoverEveryUrl ==
    finished = Workers =>
        /\ resultsJson # <<>>
        /\ Len(resultsJson[1].results) = Len(pricingUrls)
        /\ \A i \in 1..Len(pricingUrls) :
              \E k \in 1..Len(resultsJson[1].results) :
                 resultsJson[1].results[k].url = pricingUrls[i].url

(***************************************************************************)
(* URL strings                                                             *)
(*                                                                         *)
(* A URL string is kept in parts: scheme, host, port, path and query as    *)
(* they are written in the string. The path is the sequence of its         *)
(* characters, one-letter segments separated by "/"; the query is the      *)
(* sequence of its key=value pairs. A string that is no absolute URL has   *)
(* scheme "" and its characters in raw. Two strings are equal iff their    *)
(* parts are.                                                              *)
(***************************************************************************)
Url(scheme, host, port, path, query) ==
    [scheme |-> scheme, host |-> host, port |-> port, path |-> path, query |-> query,
     raw |-> <<>>]

RawString(chars) ==
    [scheme |-> "", host |-> "", port |-> "", path |-> <<>>, query |-> <<>>, raw |-> chars]

DefaultPort(scheme) == IF scheme = "https:" THEN "443" ELSE "80"

\* a parser that accepts every string, taking one without scheme for a path
ParseUrlLenient(u) ==
    [ok |-> TRUE,
     scheme |-> u.scheme,
     host |-> u.host,
     port |-> IF u.port = DefaultPort(u.scheme) THEN "" ELSE u.port,
     pathname |-> IF u.path = <<>> THEN <<"/">> ELSE u.path,
     search |-> u.query]

\* new URL(url): throws on a string without scheme; drops a default port;
\* an empty path is "/"
ParseUrl(u) ==
    [ok |-> u.scheme # "",
     scheme |-> u.scheme,
     host |-> u.host,
     port |-> IF u.port = DefaultPort(u.scheme) THEN "" ELSE u.port,
     pathname |-> IF u.path = <<>> THEN <<"/">> ELSE u.path,
     search |-> u.query]

\* URL.prototype.toString
Href(parsed) == Url(parsed.scheme, parsed.host, parsed.port, parsed.pathname, parsed.search)

\* UTF-16 code unit of a character; a scheme sorts where its "h" does
CodeUnit(c) ==
    CASE c = "&" -> 38 [] c = "/" -> 47 [] c = "1" -> 49 [] c = "2" -> 50
      [] c = ":" -> 58 [] c = "=" -> 61 [] c = "?" -> 63 [] c = "B" -> 66
      [] c = "a" -> 97 [] c = "b" -> 98
      [] c = "http:" -> 104 [] c = "https:" -> 105
      [] c = "www.viking.com" -> 119 [] c = "www.vikingcruises.com" -> 120
      [] c = "x" -> 121 [] c = "y" -> 122

RECURSIVE InsertByKey(_, _)
\* insert a pair behind every pair whose key is not greater
InsertByKey(sorted, kv) ==
    IF sorted = <<>> THEN <<kv>>
    ELSE IF CodeUnit(sorted[1][1]) <= CodeUnit(kv[1])
         THEN <<sorted[1]>> \o InsertByKey(Tail(sorted), kv)
         ELSE <<kv>> \o sorted

RECURSIVE SortParams(_)
\* URLSearchParams.prototype.sort: stable, by key, in code unit order
SortParams(q) == IF q = <<>> THEN <<>> ELSE InsertByKey(SortParams(Front(q)), Last(q))

\* ManifestManager.normalizeUrl
normalizeUrl(u) ==
    LET parsed == ParseUrl(u) IN
    IF ~parsed.ok THEN u
    ELSE LET pathname ==
                IF parsed.pathname # <<"/">> /\ Last(parsed.pathname) = "/"
                THEN Front(parsed.pathname)
                ELSE parsed.pathname
         IN Href([parsed EXCEPT !.pathname = pathname,
                                !.port = "",
                                !.search = SortParams(parsed.search)])

RECURSIVE JoinParams(_)
JoinParams(q) ==
    IF q = <<>> THEN <<>>
    ELSE <<q[1][1], "=", q[1][2]>> \o (IF Len(q) > 1 THEN <<"&">> ELSE <<>>) \o JoinParams(Tail(q))

\* the characters of a URL string, in order
Chars(u) ==
    IF u.scheme = "" THEN u.raw
    ELSE <<u.scheme, "/", "/", u.host>>
         \o (IF u.port # "" THEN <<":", u.port>> ELSE <<>>)
         \o u.path
         \o (IF u.query # <<>> THEN <<"?">> \o JoinParams(u.query) ELSE <<>>)

\* primary collation weight of a character: punctuation, then symbols,
\* then digits, then letters without regard to case
PrimaryWeight(c) ==
    CASE c = ":" -> 1 [] c = "?" -> 2 [] c = "/" -> 3 [] c = "&" -> 4 [] c = "=" -> 5
      [] c = "1" -> 6 [] c = "2" -> 7
      [] c = "a" -> 8 [] c = "b" -> 9 [] c = "B" -> 9
      [] c = "http:" -> 10 [] c = "https:" -> 11
      [] c = "www.viking.com" -> 12 [] c = "www.vikingcruises.com" -> 13
      [] c = "x" -> 14 [] c = "y" -> 15

IsUpper(c) == c = "B"

RECURSIVE CompareBy(_, _, _)
\* lexicographic comparison of two character sequences by a weight table
\* w ("code" or "primary"): -1, 0 or 1
CompareBy(w, s, t) ==
    IF s = <<>> THEN (IF t = <<>> THEN 0 ELSE -1)
    ELSE IF t = <<>> THEN 1
    ELSE LET a == IF w = "code" THEN CodeUnit(s[1]) ELSE PrimaryWeight(s[1])
             b == IF w = "code" THEN CodeUnit(t[1]) ELSE PrimaryWeight(t[1])
         IN IF a < b THEN -1 ELSE IF a > b THEN 1 ELSE CompareBy(w, Tail(s), Tail(t))

RECURSIVE CompareCase(_, _)
\* the case level: at the first difference lower case sorts first
CompareCase(s, t) ==
    IF s = <<>> \/ t = <<>> THEN 0
    ELSE IF s[1] = t[1] THEN CompareCase(Tail(s), Tail(t))
    ELSE IF IsUpper(t[1]) THEN -1 ELSE 1

\* String.prototype.localeCompare: primary weights decide; strings equal
\* at the primary level are ordered by case
localeCompare(a, b) ==
    LET p == CompareBy("primary", Chars(a), Chars(b))
    IN IF p # 0 THEN p ELSE CompareCase(Chars(a), Chars(b))

\* comparison of two strings by UTF-16 code units (the < of strings)
CodeUnitCompare(a, b) == CompareBy("code", Chars(a), Chars(b))

(***************************************************************************)
(* ManifestManager                                                         *)
(***************************************************************************)
MaxInput == 3

Viking == "www.viking.com"

VikingCruises == "www.vikingcruises.com"

DiscoveredUrl(url, source, domain, lastModified, discoveredAt) ==
    [url |-> url, source |-> source, domain |-> domain,
     lastModified |-> lastModified, discoveredAt |-> discoveredAt]

\* the discovered entries a manifest is made of: the same page written with
\* and without trailing slashes and default port, queries, a nested page,
\* an upper and a lower case page, a second domain, and a string that is
\* no URL
DiscoveredEntries ==
    { DiscoveredUrl(Url("https:", Viking, "", <<"/", "x">>, <<>>), "sitemap", Viking, <<1>>, 1),
      DiscoveredUrl(Url("https:", Viking, "", <<"/", "x", "/">>, <<>>), "crawl", Viking, <<>>, 2),
      DiscoveredUrl(Url("https:", Viking, "", <<"/", "x", "/", "/">>, <<>>), "sitemap", Viking, <<2>>, 3),
      DiscoveredUrl(Url("https:", Viking, "443", <<"/", "x">>, <<>>), "crawl", Viking, <<>>, 4),
      DiscoveredUrl(Url("https:", Viking, "", <<"/", "x">>, <<<<"b", "2">>, <<"a", "1">>>>),
                    "sitemap", Viking, <<3>>, 5),
      DiscoveredUrl(Url("https:", Viking, "", <<"/", "x", "/", "y">>, <<>>), "crawl", Viking, <<>>, 6),
      DiscoveredUrl(Url("https:", Viking, "", <<"/", "B">>, <<>>), "sitemap", Viking, <<4>>, 7),
      DiscoveredUrl(Url("https:", Viking, "", <<"/", "a">>, <<>>), "crawl", Viking, <<>>, 8),
      DiscoveredUrl(Url("https:", VikingCruises, "", <<"/", "x">>, <<>>), "sitemap", VikingCruises, <<5>>, 9),
      DiscoveredUrl(RawString(<<"x", "/", "y">>), "crawl", "", <<>>, 10) }

\* seen.has(normalized), seen an insertion-ordered list of entries
SeenHas(seen, normalized) == \E i \in 1..Len(seen) : seen[i].url = normalized

RECURSIVE InsertByUrl(_, _)
\* insert an entry behind every entry that does not compare greater
InsertByUrl(sorted, e) ==
    IF sorted = <<>> THEN <<e>>
    ELSE IF localeCompare(sorted[1].url, e.url) <= 0
         THEN <<sorted[1]>> \o InsertByUrl(Tail(sorted), e)
         ELSE <<e>> \o sorted

RECURSIVE SortByUrlStable(_)
SortByUrlStable(es) ==
    IF es = <<>> THEN <<>> ELSE InsertByUrl(SortByUrlStable(Front(es)), Last(es))

\* a sort that leaves the entries in insertion order
SortByUrlOmitted(es) == es

\* .sort((a, b) => a.url.localeCompare(b.url))
SortByUrl(es) == SortByUrlStable(es)

RECURSIVE SeenAfter(_, _)
\* the seen map after the loop over urls, in insertion order
SeenAfter(seen, urls) ==
    IF urls = <<>> THEN seen
    ELSE LET normalized == normalizeUrl(urls[1].url)
         IN IF ~SeenHas(seen, normalized)
            THEN SeenAfter(Append(seen, [urls[1] EXCEPT !.url = normalized]), Tail(urls))
            ELSE SeenAfter(seen, Tail(urls))

RECURSIVE SeenAfterOverwriting(_, _)
\* a loop that sets the entry of a key on every occurrence
SeenAfterOverwriting(seen, urls) ==
    IF urls = <<>> THEN seen
    ELSE LET normalized == normalizeUrl(urls[1].url)
             e == [urls[1] EXCEPT !.url = normalized]
         IN IF ~SeenHas(seen, normalized)
            THEN SeenAfterOverwriting(Append(seen, e), Tail(urls))
            ELSE SeenAfterOverwriting(
                    [i \in 1..Len(seen) |-> IF seen[i].url = normalized THEN e ELSE seen[i]],
                    Tail(urls))

\* a dedup that lets the last entry of a key prevail
deduplicateUrlsLastWins(urls) == SortByUrl(SeenAfterOverwriting(<<>>, urls))

\* ManifestManager.deduplicateUrls
deduplicateUrls(urls) == SortByUrl(SeenAfter(<<>>, urls))

\* the counts of the entries by one of their fields
CountBy(es, field) ==
    [k \in {es[i][field] : i \in 1..Len(es)} |->
        Cardinality({i \in 1..Len(es) : es[i][field] = k})]

\* ManifestManager.createManifest
createManifest(urls) ==
    LET uniqueUrls == deduplicateUrls(urls)
    IN [version |-> "1.0.0",
        totalUrls |-> Len(uniqueUrls),
        byDomain |-> CountBy(uniqueUrls, "domain"),
        bySource |-> CountBy(uniqueUrls, "source"),
        urls |-> uniqueUrls]

InitManifest ==
    /\ input \in SeqsUpTo(DiscoveredEntries, MaxInput)
    /\ manifest = <<>>
    /\ PageIdle /\ BatchIdle /\ FilesIdle /\ WorkersIdle /\ CrawlersIdle /\ ReportIdle

\* const manifest = manifestManager.createManifest(allUrls)
CreateManifest ==
    /\ manifest = <<>>
    /\ manifest' = <<createManifest(input)>>
    /\ UNCHANGED <<input, pageVars, batchVars, fileVars, workerVars, crawlerVars, reportVars>>

NextManifest == CreateManifest

SpecManifest == InitManifest /\ [][NextManifest]_vars

(***************************************************************************)
(* Properties of the manifest                                              *)
(***************************************************************************)
RECURSIVE SumOf(_)
SumOf(f) ==
    IF DOMAIN f = {} THEN 0
    ELSE LET k == CHOOSE x \in DOMAIN f : TRUE
         IN f[k] + SumOf([x \in DOMAIN f \ {k} |-> f[x]])

OutputUrls == manifest[1].urls

\* every input entry's normalized URL is the url of exactly one output entry
EachNormalizedUrlOnce ==
    \A i \in 1..Len(input) :
       Cardinality({k \in 1..Len(OutputUrls) : OutputUrls[k].url = normalizeUrl(input[i].url)}) = 1

\* C8: the output holds each normalized URL exactly once, and no two output
\* entries share a normalized URL: normalizeUrl never maps two distinct
\* output entries to the same string.
C8_NoTwoEntriesShareNormalizedUrl ==
    manifest # <<>> =>
        /\ EachNormalizedUrlOnce
        /\ \A k, l \in 1..Len(OutputUrls) :
              normalizeUrl(OutputUrls[k].url) = normalizeUrl(OutputUrls[l].url) => k = l

\* C9 as stated: the urls are in ascending lexicographic (code unit) order.
C9_SortedLexicographically ==
    manifest # <<>> =>
        \A k, l \in 1..Len(OutputUrls) :
           k < l => CodeUnitCompare(OutputUrls[k].url, OutputUrls[l].url) < 0

\* C9 amended: the urls are in ascending order of localeCompare, the
\* collation order of the runtime, which is not the code unit order.
C9_SortedByLocaleCompare ==
    manifest # <<>> =>
        \A k, l \in 1..Len(OutputUrls) :
           k < l => localeCompare(OutputUrls[k].url, OutputUrls[l].url) < 0

\* a manifest of three urls that were discovered in another order
C9_Witness ==
    /\ manifest # <<>>
    /\ Len(OutputUrls) = 3
    /\ \E i \in 1..2 : localeCompare(input[i].url, input[i + 1].url) > 0

FirstWithKey(key) ==
    CHOOSE i \in 1..Len(input) :
       /\ normalizeUrl(input[i].url) = key
       /\ \A j \in 1..(i - 1) : normalizeUrl(input[j].url) # key

\* C10: every output url is the normalized url of an input entry, the
\* output entry of a key carries the source, domain, lastModified and
\* discoveredAt of the first input entry with that key, and totalUrls is
\* the length of the list, the sum of the by-domain counts and the sum of
\* the by-source counts.
C10_FilterAndDedupOnly ==
    manifest # <<>> =>
        /\ \A k \in 1..Len(OutputUrls) :
              /\ \E i \in 1..Len(input) : OutputUrls[k].url = normalizeUrl(input[i].url)
              /\ LET first == input[FirstWithKey(OutputUrls[k].url)]
                 IN /\ OutputUrls[k].source = first.source
                    /\ OutputUrls[k].domain = first.domain
                    /\ OutputUrls[k].lastModified = first.lastModified
                    /\ OutputUrls[k].discoveredAt = first.discoveredAt
        /\ manifest[1].totalUrls = Len(OutputUrls)
        /\ manifest[1].totalUrls = SumOf(manifest[1].byDomain)
        /\ manifest[1].totalUrls = SumOf(manifest[1].bySource)

\* three input entries of which two share a normalized url, from two
\* sources and two domains
C10_Witness ==
    /\ manifest # <<>>
    /\ Len(input) = 3
    /\ Len(OutputUrls) = 2
    /\ Cardinality(DOMAIN manifest[1].byDomain) = 2
    /\ Cardinality(DOMAIN manifest[1].bySource) = 2
    /\ normalizeUrl(input[1].url) = normalizeUrl(input[2].url)
    /\ input[1].discoveredAt # input[2].discoveredAt

(***************************************************************************)
(* ManifestManager.mergeUrls                                               *)
(***************************************************************************)
MaxMerged == 3

Reverse(s) == [i \in 1..Len(s) |-> s[Len(s) + 1 - i]]

RECURSIVE Flatten(_)
\* the entries of a list of collections, in iteration order
Flatten(arrays) == IF arrays = <<>> THEN <<>> ELSE arrays[1] \o Flatten(Tail(arrays))

\* a rule that lets every later entry of a key replace the stored one
ReplacesAlways(url, existing) == TRUE

\* a rule that lets a later entry with the same timestamp replace the stored one
ReplacesOnTie(url, existing) == url.discoveredAt >= existing.discoveredAt

\* new Date(url.discoveredAt) > new Date(existing.discoveredAt)
Replaces(url, existing) == url.discoveredAt > existing.discoveredAt

RECURSIVE MergeArray(_, _)
\* the inner loop: the merged map, in insertion order, after one collection;
\* merged.set on a stored key replaces the value in place
MergeArray(m, urls) ==
    IF urls = <<>> THEN m
    ELSE LET url == urls[1]
             hit == {i \in 1..Len(m) : m[i].url = url.url}
         IN IF hit = {}
            THEN MergeArray(Append(m, url), Tail(urls))
            ELSE LET i == CHOOSE j \in hit : TRUE
                 IN IF Replaces(url, m[i])
                    THEN MergeArray([m EXCEPT ![i] = url], Tail(urls))
                    ELSE MergeArray(m, Tail(urls))

RECURSIVE MergeArrays(_, _)
MergeArrays(m, urlArrs) ==
    IF urlArrs = <<>> THEN m ELSE MergeArrays(MergeArray(m, urlArrs[1]), Tail(urlArrs))

\* ManifestManager.mergeUrls(...urlArrays)
mergeUrls(urlArrs) == MergeArrays(<<>>, urlArrs)

\* entries to merge: two URL strings with the same normalized form, three
\* timestamps, and the two sources
MergeEntries ==
    { DiscoveredUrl(Url("https:", Viking, "", ps[1], <<>>), ps[2], Viking,
                    IF ps[2] = "sitemap" THEN <<t>> ELSE <<>>, t) :
        ps \in {<<<<"/", "x">>, "sitemap">>, <<<<"/", "x">>, "crawl">>,
                <<<<"/", "x", "/">>, "crawl">>},
        t \in 1..3 }

\* one, two or three collections holding at most MaxMerged entries together
MergeInputs ==
    { [a \in 1..(Len(cuts) - 1) |-> SubSeq(flat, cuts[a] + 1, cuts[a + 1])] :
        <<flat, cuts>> \in
           { fc \in SeqsUpTo(MergeEntries, MaxMerged) \X SeqsUpTo(0..MaxMerged, 4) :
                /\ Len(fc[2]) >= 2
                /\ fc[2][1] = 0 /\ Last(fc[2]) = Len(fc[1])
                /\ \A a \in 1..(Len(fc[2]) - 1) : fc[2][a] <= fc[2][a + 1] } }

InitMerge ==
    /\ urlArrays \in MergeInputs
    /\ merged = <<>>
    /\ PageIdle /\ BatchIdle /\ FilesIdle /\ WorkersIdle /\ ManifestIdle
    /\ NormalizeIdle /\ DiscoveryIdle /\ SitemapIdle /\ LinkIdle /\ ReportIdle

\* mergeUrls applied to the collections as given and in the opposite order
MergeUrls ==
    /\ merged = <<>>
    /\ merged' = <<mergeUrls(urlArrays), mergeUrls(Reverse(urlArrays))>>
    /\ UNCHANGED <<urlArrays, pageVars, batchVars, fileVars, workerVars, manifestVars,
                   normalizeVars, discoveryVars, sitemapVars, linkVars, reportVars>>

NextMerge == MergeUrls

SpecMerge == InitMerge /\ [][NextMerge]_vars

(***************************************************************************)
(* Properties of mergeUrls                                                 *)
(***************************************************************************)
MergeInput == Flatten(urlArrays)

SetMax(S) == CHOOSE x \in S : \A y \in S : y <= x

\* the timestamps of the input entries with the url string u
StampsOf(u) == {MergeInput[i].discoveredAt : i \in {j \in 1..Len(MergeInput) : MergeInput[j].url = u}}

\* no two input entries with the url string u have the same timestamp
DistinctStamps(u) ==
    \A i, j \in 1..Len(MergeInput) :
       (MergeInput[i].url = u /\ MergeInput[j].url = u
          /\ MergeInput[i].discoveredAt = MergeInput[j].discoveredAt) => i = j

\* the entry a merge result holds for the url string u
WinnerIn(res, u) == res[CHOOSE k \in 1..Len(res) : res[k].url = u]

\* C12: each result of mergeUrls holds exactly one entry per url string of
\* the inputs and nothing else, each entry is an input entry and carries the
\* most recent timestamp of its url string, and when the entries of a url
\* string have different timestamps both orders of the collections return
\* the same entry for it.
C12_MergeKeepsMostRecentInAnyOrder ==
    merged # <<>> =>
        /\ \A o \in 1..2 :
              LET res == merged[o]
              IN /\ \A i \in 1..Len(MergeInput) :
                       Cardinality({k \in 1..Len(res) : res[k].url = MergeInput[i].url}) = 1
                 /\ \A k \in 1..Len(res) :
                       /\ res[k] \in Range(MergeInput)
                       /\ res[k].discoveredAt = SetMax(StampsOf(res[k].url))
        /\ \A i \in 1..Len(MergeInput) :
              DistinctStamps(MergeInput[i].url) =>
                 WinnerIn(merged[1], MergeInput[i].url) = WinnerIn(merged[2], MergeInput[i].url)

\* two collections share a url string, the first holds the more recent
\* entry, and a third entry of that url string is older still
C12_Witness ==
    /\ merged # <<>>
    /\ Len(urlArrays) = 2
    /\ Len(urlArrays[1]) = 1 /\ Len(urlArrays[2]) = 2
    /\ urlArrays[2][1].url = urlArrays[1][1].url
    /\ urlArrays[2][2].url = urlArrays[1][1].url
    /\ urlArrays[1][1].discoveredAt = 3
    /\ urlArrays[2][1].discoveredAt = 1
    /\ urlArrays[2][2].discoveredAt = 2
    /\ urlArrays[1][1].source # urlArrays[2][2].source
    /\ Len(merged[1]) = 1

\* the first entry in iteration order, among the entries of a flattened
\* list with the url string u, that carries their most recent timestamp
FirstMostRecent(flat, u) ==
    LET same == {i \in 1..Len(flat) : flat[i].url = u}
        top == {i \in same : \A j \in same : flat[j].discoveredAt <= flat[i].discoveredAt}
    IN flat[CHOOSE i \in top : \A j \in top : i <= j]

\* C33: among entries with the same url string and identical discoveredAt,
\* mergeUrls keeps the first in iteration order (earliest collection, then
\* earliest position): the entry returned for a url string is the first of
\* the entries that carry its most recent timestamp.
C33_FirstWinsOnEqualTimestamps ==
    merged # <<>> =>
        /\ \A k \in 1..Len(merged[1]) :
              merged[1][k] = FirstMostRecent(Flatten(urlArrays), merged[1][k].url)
        /\ \A k \in 1..Len(merged[2]) :
              merged[2][k] = FirstMostRecent(Flatten(Reverse(urlArrays)), merged[2][k].url)

\* an older entry, then two entries of the same url string with one
\* timestamp in different collections: the one of the first collection stays
C33_Witness ==
    /\ merged # <<>>
    /\ Len(urlArrays) = 2
    /\ Len(urlArrays[1]) = 2 /\ Len(urlArrays[2]) = 1
    /\ urlArrays[1][1].url = urlArrays[1][2].url
    /\ urlArrays[2][1].url = urlArrays[1][2].url
    /\ urlArrays[1][1].discoveredAt = 1
    /\ urlArrays[1][2].discoveredAt = 2
    /\ urlArrays[2][1].discoveredAt = 2
    /\ urlArrays[1][2].source = "sitemap"
    /\ urlArrays[2][1].source = "crawl"
    /\ merged[1] = <<urlArrays[1][2]>>
    /\ merged[2] = <<urlArrays[2][1]>>

(***************************************************************************)
(* ManifestManager.normalizeUrl on its own                                 *)
(***************************************************************************)
\* URL strings: both schemes and hosts, no port, the default ports and
\* another port, paths with no, one and two trailing slashes, unsorted
\* queries; and strings that are no URL
UrlStrings ==
    { Url(scheme, host, port, path, query) :
        scheme \in {"http:", "https:"},
        host \in {Viking, VikingCruises},
        port \in {"", "80", "443", "8443"},
        path \in {<<>>, <<"/">>, <<"/", "x">>, <<"/", "x", "/">>, <<"/", "x", "/", "/">>,
                  <<"/", "x", "/", "y">>},
        query \in {<<>>, <<<<"b", "2">>, <<"a", "1">>>>, <<<<"a", "2">>, <<"a", "1">>>>} }
    \cup { RawString(<<"x", "/", "y">>), RawString(<<>>), RawString(<<"/", "x", "/">>) }

InitNormalize ==
    /\ rawUrl \in {<<u>> : u \in UrlStrings}
    /\ normalizations = <<>>
    /\ PageIdle /\ BatchIdle /\ FilesIdle /\ WorkersIdle /\ ManifestIdle
    /\ MergeIdle /\ DiscoveryIdle /\ SitemapIdle /\ LinkIdle /\ ReportIdle

\* normalizeUrl(url), and normalizeUrl of what it returned
NormalizeTwice ==
    /\ normalizations = <<>>
    /\ normalizations' = <<normalizeUrl(rawUrl[1]), normalizeUrl(normalizeUrl(rawUrl[1]))>>
    /\ UNCHANGED <<rawUrl, pageVars, batchVars, fileVars, workerVars, manifestVars,
                   mergeVars, discoveryVars, sitemapVars, linkVars, reportVars>>

NextNormalize == NormalizeTwice

SpecNormalize == InitNormalize /\ [][NextNormalize]_vars

(***************************************************************************)
(* Properties of normalizeUrl                                              *)
(***************************************************************************)
\* C13: normalizing the result of normalizeUrl returns it unchanged.
C13_NormalizeIdempotent ==
    normalizations # <<>> => normalizations[2] = normalizations[1]

\* what the three rules make of a parseable URL string: one trailing "/"
\* stripped from a non-root path, a default port removed, the query sorted
\* by key
ThreeRules(u) ==
    LET path == IF u.path = <<>> THEN <<"/">> ELSE u.path
    IN Url(u.scheme, u.host,
           IF u.port = DefaultPort(u.scheme) THEN "" ELSE u.port,
           IF path # <<"/">> /\ Last(path) = "/" THEN Front(path) ELSE path,
           SortParams(u.query))

\* C14: for a parseable URL string normalizeUrl returns what the three rules
\* make of it: scheme, host, a port that is not the default port, and the
\* parameter values are kept.
C14_OnlyThreeRules ==
    (normalizations # <<>> /\ ParseUrl(rawUrl[1]).ok) =>
        normalizations[1] = ThreeRules(rawUrl[1])

\* a string without a scheme, which no URL parser accepts without a base
NoAbsoluteUrl(u) == u.scheme = ""

\* C15: a string that cannot be parsed as a URL is returned unchanged by
\* normalizeUrl, and createManifest, which does not fail on it, lists the
\* first entry that carries it under that same string.
C15_UnparseableKeptAsIs ==
    manifest # <<>> =>
        \A i \in 1..Len(input) :
           NoAbsoluteUrl(input[i].url) =>
              /\ normalizeUrl(input[i].url) = input[i].url
              /\ \E k \in 1..Len(OutputUrls) :
                    OutputUrls[k] = input[FirstWithKey(input[i].url)]

\* a manifest made of a URL and of a string that is no URL
C15_Witness ==
    /\ manifest # <<>>
    /\ Len(input) = 2
    /\ ~NoAbsoluteUrl(input[1].url)
    /\ NoAbsoluteUrl(input[2].url)
    /\ Len(OutputUrls) = 2

(***************************************************************************)
(* runDiscovery                                                            *)
(***************************************************************************)
MaxFound == 2

\* the URL strings the crawlers come across: the same page written in three
\* ways, another page, and a page of the second domain
FoundUrls ==
    { Url("https:", Viking, "", <<"/", "x">>, <<>>),
      Url("https:", Viking, "", <<"/", "x", "/">>, <<>>),
      Url("https:", Viking, "443", <<"/", "x">>, <<>>),
      Url("https:", Viking, "", <<"/", "a">>, <<>>),
      Url("https:", VikingCruises, "", <<"/", "x">>, <<>>) }

\* a list a crawler returns: the values of its discoveredUrls map, one
\* entry per url string, stamped in the order of discovery from the time
\* `since` on
CrawlerOutputs(source, since) ==
    { [i \in 1..Len(found) |->
          DiscoveredUrl(found[i], source, found[i].host,
                        IF source = "sitemap" THEN <<i>> ELSE <<>>, since + i)] :
        found \in {f \in SeqsUpTo(FoundUrls, MaxFound) :
                      \A i, j \in 1..Len(f) : f[i] = f[j] => i = j} }

InitDiscovery ==
    /\ options \in {<<[includeLinkCrawl |-> b]>> : b \in BOOLEAN}
    /\ sitemapUrls = <<>>
    /\ linkUrls = <<>>
    /\ allUrls = <<>>
    /\ dpc = "sitemap"
    /\ PageIdle /\ BatchIdle /\ FilesIdle /\ WorkersIdle /\ ManifestIdle
    /\ MergeIdle /\ NormalizeIdle /\ SitemapIdle /\ LinkIdle /\ ReportIdle

\* Phase 1: sitemapUrls = await sitemapCrawler.discoverPricingUrls();
\* allUrls = [...sitemapUrls]
SitemapPhase ==
    /\ dpc = "sitemap"
    /\ \E urls \in CrawlerOutputs("sitemap", 0) :
          /\ sitemapUrls' = urls
          /\ allUrls' = urls
    /\ dpc' = IF options[1].includeLinkCrawl THEN "link" ELSE "manifest"
    /\ UNCHANGED <<options, linkUrls, pageVars, batchVars, fileVars, workerVars, manifestVars,
                   mergeVars, normalizeVars, sitemapVars, linkVars, reportVars>>

\* Phase 2: linkUrls = await linkCrawler.discoverPricingUrls(...);
\* allUrls = manifestManager.mergeUrls(sitemapUrls, linkUrls)
LinkPhase ==
    /\ dpc = "link"
    /\ \E urls \in CrawlerOutputs("crawl", Len(sitemapUrls)) :
          /\ linkUrls' = urls
          /\ allUrls' = mergeUrls(<<sitemapUrls, urls>>)
    /\ dpc' = "manifest"
    /\ UNCHANGED <<options, sitemapUrls, pageVars, batchVars, fileVars, workerVars, manifestVars,
                   mergeVars, normalizeVars, sitemapVars, linkVars, reportVars>>

\* manifest = manifestManager.createManifest(allUrls), then saveManifest
CreateAndSaveManifest ==
    /\ dpc = "manifest"
    /\ manifest' = <<createManifest(allUrls)>>
    /\ dpc' = "done"
    /\ UNCHANGED <<options, sitemapUrls, linkUrls, allUrls, input, pageVars, batchVars, fileVars,
                   workerVars, mergeVars, normalizeVars, sitemapVars, linkVars, reportVars>>

NextDiscovery == SitemapPhase \/ LinkPhase \/ CreateAndSaveManifest

SpecDiscovery == InitDiscovery /\ [][NextDiscovery]_vars

(***************************************************************************)
(* Properties of runDiscovery                                              *)
(***************************************************************************)
\* the entries both crawlers discovered
Discovered == sitemapUrls \o linkUrls

\* C11: the manifest entry of a URL identity carries the most recent
\* discoveredAt of the discovered entries with that normalized URL.
C11_MostRecentDiscoveryWins ==
    dpc = "done" =>
        \A k \in 1..Len(OutputUrls) :
           OutputUrls[k].discoveredAt =
              SetMax({Discovered[i].discoveredAt :
                         i \in {j \in 1..Len(Discovered) :
                                   normalizeUrl(Discovered[j].url) = OutputUrls[k].url}})

(***************************************************************************)
(* SitemapCrawler                                                          *)
(*                                                                         *)
(* A sitemap document is identified by the directory or server it lies in  *)
(* and its file name: a local path is [dir |-> localSitemapDir, file],     *)
(* a remote location [dir |-> "https://host", file], and a reference       *)
(* without scheme has dir "". A page location is a URL string whose path   *)
(* is a sequence of "/" and segments.                                      *)
(***************************************************************************)
maxConcurrentDiscovery == 2

localSitemapDir == "sitemaps"

VikingServer == "https://www.viking.com"

VikingCruisesServer == "https://www.vikingcruises.com"

SitemapId(dir, file) == [dir |-> dir, file |-> file]

\* parentSource.startsWith('http'); also: new URL(loc) accepts loc
StartsWithHttp(id) == id.dir \in {VikingServer, VikingCruisesServer}

\* file.endsWith('.xml')
EndsWithXml(file) == file \in {"a.xml", "b.xml", "c.xml", "d.xml", "sitemap.xml"}

\* UTF-16 code unit of the first character of a file name, by which the
\* names used here differ
FileCodeUnit(file) ==
    CASE file = "a.xml" -> 97 [] file = "b.xml" -> 98 [] file = "c.xml" -> 99
      [] file = "d.xml" -> 100 [] file = "notes.txt" -> 110 [] file = "sitemap.xml" -> 115

RECURSIVE InsertByName(_, _)
InsertByName(sorted, id) ==
    IF sorted = <<>> THEN <<id>>
    ELSE IF FileCodeUnit(sorted[1].file) <= FileCodeUnit(id.file)
         THEN <<sorted[1]>> \o InsertByName(Tail(sorted), id)
         ELSE <<id>> \o sorted

RECURSIVE SortPaths(_)
\* sitemaps.sort(): by code units; the paths share the directory
SortPaths(ids) == IF ids = <<>> THEN <<>> ELSE InsertByName(SortPaths(Front(ids)), Last(ids))

\* the lower case form of a path segment
Lower(c) == IF c = "Pricing.HTML" THEN "pricing.html" ELSE c

\* config.pricingPagePatterns: /\/pricing\.html$/i, /\/pricing$/i, /\/prices\.html$/i
isPricingUrl(url) ==
    LET c == Chars(url)
    IN /\ Len(c) >= 2
       /\ c[Len(c) - 1] = "/"
       /\ Lower(c[Len(c)]) \in {"pricing.html", "pricing", "prices.html"}

\* a page location on a server, and one written without scheme and host
PageOn(host, segment, leaf) == Url("https:", host, "", <<"/", "cruises", "/", segment, "/", leaf>>, <<>>)

PageWithoutScheme(segment, leaf) == RawString(<<"cruises", "/", segment, "/", leaf>>)

SitemapUrl(loc, lastmod) == [loc |-> loc, lastmod |-> lastmod]

Urlset(urls) == [kind |-> "urlset", sitemap |-> <<>>, url |-> urls]

SitemapIndex(children) == [kind |-> "sitemapindex", sitemap |-> children, url |-> <<>>]

\* a leaf set with three pricing pages and two other pages of its own
LeafSet(host, a, b, c) ==
    Urlset(<< SitemapUrl(PageOn(host, a, "pricing.html"), <<1>>),
              SitemapUrl(PageOn(host, a, "itinerary.html"), <<>>),
              SitemapUrl(PageOn(host, b, "Pricing.HTML"), <<2>>),
              SitemapUrl(Url("https:", host, "", <<"/", "cruises", "/", c, "/", "pricing.html">>,
                             <<<<"a", "1">>>>), <<>>),
              SitemapUrl(PageOn(host, c, "prices.html"), <<>>) >>)

\* a remote two-level index: the root refers to two leaf sets
TwoLevelSite ==
    [ readable |-> FALSE,
      files |-> <<>>,
      local |-> <<>>,
      sitemapUrls |-> <<SitemapId(VikingServer, "sitemap.xml")>>,
      remote |->
        (SitemapId(VikingServer, "sitemap.xml") :>
            SitemapIndex(<<SitemapId(VikingServer, "a.xml"), SitemapId(VikingServer, "b.xml")>>))
        @@ (SitemapId(VikingServer, "a.xml") :> LeafSet(Viking, "a", "b", "c"))
        @@ (SitemapId(VikingServer, "b.xml") :> LeafSet(Viking, "d", "e", "f")) ]

\* remote roots: an index of three batches that refers to itself and twice
\* to one child; and a second root that lists a page of the first anew
RemoteSite ==
    [ readable |-> TRUE,
      files |-> <<"notes.txt">>,
      local |-> <<>>,
      sitemapUrls |-> <<SitemapId(VikingServer, "sitemap.xml"),
                        SitemapId(VikingCruisesServer, "sitemap.xml")>>,
      remote |->
        (SitemapId(VikingServer, "sitemap.xml") :>
            SitemapIndex(<<SitemapId(VikingServer, "a.xml"), SitemapId(VikingServer, "c.xml"),
                           SitemapId(VikingServer, "sitemap.xml"), SitemapId(VikingServer, "a.xml"),
                           SitemapId(VikingServer, "d.xml")>>))
        @@ (SitemapId(VikingServer, "a.xml") :>
              Urlset(<< SitemapUrl(PageOn(Viking, "a", "pricing.html"), <<1>>),
                        SitemapUrl(PageOn(Viking, "a", "itinerary.html"), <<>>) >>))
        @@ (SitemapId(VikingServer, "c.xml") :>
              Urlset(<<SitemapUrl(PageOn(Viking, "c", "pricing"), <<>>)>>))
        @@ (SitemapId(VikingServer, "d.xml") :>
              Urlset(<<SitemapUrl(PageOn(Viking, "e", "pricing.html"), <<>>)>>))
        @@ (SitemapId(VikingCruisesServer, "sitemap.xml") :>
              Urlset(<< SitemapUrl(PageOn(VikingCruises, "f", "pricing.html"), <<>>),
                        SitemapUrl(PageOn(Viking, "a", "pricing.html"), <<3>>) >>)) ]

\* a local mirror: an index whose children are on two servers under one
\* file name, one child without a local copy and one reference without
\* scheme; a leaf set; a leaf set that holds a location without scheme;
\* and a file that is no sitemap
LocalSite ==
    [ readable |-> TRUE,
      files |-> <<"c.xml", "notes.txt", "b.xml", "a.xml">>,
      local |->
        ("a.xml" :>
            SitemapIndex(<<SitemapId(VikingServer, "c.xml"), SitemapId(VikingCruisesServer, "c.xml"),
                           SitemapId(VikingServer, "d.xml"), SitemapId("", "b.xml")>>))
        @@ ("b.xml" :> Urlset(<< SitemapUrl(PageOn(Viking, "b", "pricing"), <<>>),
                                 SitemapUrl(PageWithoutScheme("d", "pricing.html"), <<>>),
                                 SitemapUrl(PageOn(Viking, "e", "pricing.html"), <<>>) >>))
        @@ ("c.xml" :> Urlset(<< SitemapUrl(PageOn(Viking, "a", "pricing.html"), <<1>>),
                                 SitemapUrl(PageOn(Viking, "a", "itinerary.html"), <<>>) >>)),
      sitemapUrls |-> <<SitemapId(VikingServer, "sitemap.xml"),
                        SitemapId(VikingCruisesServer, "sitemap.xml")>>,
      remote |->
        (SitemapId(VikingServer, "sitemap.xml") :>
            Urlset(<<SitemapUrl(PageOn(Viking, "b", "pricing.html"), <<>>)>>))
        @@ (SitemapId(VikingCruisesServer, "sitemap.xml") :>
              Urlset(<<SitemapUrl(PageOn(VikingCruises, "f", "pricing.html"), <<>>)>>))
        @@ (SitemapId(VikingCruisesServer, "c.xml") :>
              Urlset(<<SitemapUrl(PageOn(VikingCruises, "c", "pricing.html"), <<>>)>>))
        @@ (SitemapId(VikingServer, "d.xml") :>
              Urlset(<<SitemapUrl(PageOn(Viking, "d", "pricing.html"), <<>>)>>)) ]

\* remote indexes below an index: the root refers to two indexes that
\* refer to each other, share a child and list one page in three entries
NestedSite ==
    [ readable |-> FALSE,
      files |-> <<>>,
      local |-> <<>>,
      sitemapUrls |-> <<SitemapId(VikingServer, "sitemap.xml")>>,
      remote |->
        (SitemapId(VikingServer, "sitemap.xml") :>
            SitemapIndex(<<SitemapId(VikingServer, "a.xml"), SitemapId(VikingServer, "b.xml")>>))
        @@ (SitemapId(VikingServer, "a.xml") :>
              SitemapIndex(<<SitemapId(VikingServer, "c.xml"), SitemapId(VikingServer, "d.xml"),
                             SitemapId(VikingServer, "b.xml")>>))
        @@ (SitemapId(VikingServer, "b.xml") :>
              SitemapIndex(<<SitemapId(VikingServer, "c.xml"), SitemapId(VikingCruisesServer, "c.xml"),
                             SitemapId(VikingCruisesServer, "d.xml"),
                             SitemapId(VikingServer, "a.xml")>>))
        @@ (SitemapId(VikingServer, "c.xml") :>
              Urlset(<< SitemapUrl(PageOn(Viking, "a", "pricing.html"), <<1>>),
                        SitemapUrl(PageOn(Viking, "a", "pricing.html"), <<2>>) >>))
        @@ (SitemapId(VikingServer, "d.xml") :>
              Urlset(<<SitemapUrl(PageOn(Viking, "d", "pricing.html"), <<>>)>>))
        @@ (SitemapId(VikingCruisesServer, "c.xml") :>
              Urlset(<<SitemapUrl(PageOn(Viking, "a", "pricing.html"), <<3>>)>>))
        @@ (SitemapId(VikingCruisesServer, "d.xml") :>
              Urlset(<<SitemapUrl(PageOn(VikingCruises, "e", "pricing"), <<>>)>>)) ]

Sites == {TwoLevelSite, RemoteSite, LocalSite, NestedSite}

\* every identifier a run can come to name
SitemapIds ==
    {SitemapId(dir, file) :
        dir \in {localSitemapDir, VikingServer, VikingCruisesServer, ""},
        file \in {"a.xml", "b.xml", "c.xml", "d.xml", "sitemap.xml"}}

\* the document behind an identifier: <<>> or <<document>>
DocumentAt(st, id) ==
    IF id.dir = localSitemapDir
    THEN IF id.file \in DOMAIN st.local THEN <<st.local[id.file]>> ELSE <<>>
    ELSE IF id \in DOMAIN st.remote THEN <<st.remote[id]>> ELSE <<>>

\* how fs.readFile and parse, or fetchWithTimeout, response.ok, response.text
\* and parse can end for an identifier
Outcomes(st, id) ==
    IF id.dir = localSitemapDir
    THEN IF DocumentAt(st, id) = <<>> THEN {"readError"} ELSE {"ok", "readError", "parseError"}
    ELSE IF DocumentAt(st, id) = <<>> THEN {"fetchError"}
         ELSE {"ok", "fetchError", "timeout", "httpStatus", "parseError"}

\* the listed ways a document fails
DocumentFailures == {"readError", "fetchError", "timeout", "httpStatus", "parseError"}

\* the call for a document has ended
Settled(d) == d.st \notin {"unvisited", "reading", "resolving"}

\* the call for a document: how far it is, the batch it is in, the children
\* of that batch whose calls it awaits, every child whose read it issued,
\* and the time at which its own read ended
Unvisited == [st |-> "unvisited", chunk |-> 0, awaiting |-> {}, own |-> {}, at |-> 0]

\* SitemapCrawler.findLocalSitemaps
findLocalSitemaps(st) ==
    IF ~st.readable THEN <<>>
    ELSE LET xml == {i \in 1..Len(st.files) : EndsWithXml(st.files[i])}
             RECURSIVE Pushed(_)
             Pushed(i) ==
                IF i > Len(st.files) THEN <<>>
                ELSE (IF i \in xml THEN <<SitemapId(localSitemapDir, st.files[i])>> ELSE <<>>)
                     \o Pushed(i + 1)
         IN SortPaths(Pushed(1))

\* a root list that always holds the configured remote locations too
RootsLocalAndRemote(localSitemaps, remote) == localSitemaps \o remote

\* if (localSitemaps.length > 0) ... else ... config.sitemapUrls
Roots(localSitemaps, remote) == IF Len(localSitemaps) > 0 THEN localSitemaps ELSE remote

\* SitemapCrawler.resolveLocalSitemap: <<>> for null
resolveLocalSitemap(loc) ==
    IF StartsWithHttp(loc) THEN <<SitemapId(localSitemapDir, loc.file)>> ELSE <<>>

\* the identifier under which a child reference of the document parent is
\* processed
ChildTarget(parent, loc) ==
    IF ~StartsWithHttp(parent) /\ resolveLocalSitemap(loc) # <<>>
    THEN resolveLocalSitemap(loc)[1]
    ELSE loc

\* a call that reads its document whether or not it was visited
ProcessUnchecked(run, id) ==
    [run EXCEPT !.visited = @ \cup {id},
                !.docs[id] = [Unvisited EXCEPT !.st = "reading"],
                !.started = Append(@, id)]

\* processLocalSitemap / processRemoteSitemap up to the first await: nothing
\* for a visited identifier, else the identifier is marked and its read issued.
\* run is the crawler's state [visited, docs, started, threw]
Process(run, id) ==
    IF id \in run.visited THEN run
    ELSE [run EXCEPT !.visited = @ \cup {id},
                     !.docs[id] = [Unvisited EXCEPT !.st = "reading"],
                     !.started = Append(@, id)]

\* SitemapCrawler.chunk
NumChunks(children) == (Len(children) + maxConcurrentDiscovery - 1) \div maxConcurrentDiscovery

Chunk(children, k) ==
    SubSeq(children, (k - 1) * maxConcurrentDiscovery + 1,
           IF k * maxConcurrentDiscovery < Len(children) THEN k * maxConcurrentDiscovery
           ELSE Len(children))

RECURSIVE StartChunkAwaitingVisited(_, _, _)
\* a batch that also awaits the children another call has taken up
StartChunkAwaitingVisited(run, parent, chunk) ==
    IF chunk = <<>> THEN run
    ELSE LET target == ChildTarget(parent, chunk[1])
             after == Process(run, target)
         IN StartChunkAwaitingVisited(
               [after EXCEPT !.docs[parent].awaiting = @ \cup {target},
                             !.docs[parent].own = @ \cup {target}],
               parent, Tail(chunk))

RECURSIVE StartChunk(_, _, _)
\* chunk.map(async ...): every child call runs to its first await; the
\* index awaits the children it started
StartChunk(run, parent, chunk) ==
    IF chunk = <<>> THEN run
    ELSE LET target == ChildTarget(parent, chunk[1])
             after == Process(run, target)
         IN StartChunk(
               IF target \in run.visited THEN run
               ELSE [after EXCEPT !.docs[parent].awaiting = @ \cup {target},
                                  !.docs[parent].own = @ \cup {target}],
               parent, Tail(chunk))

\* the index document `parent`, whose batch has ended, goes on to its next
\* batch or ends
NextChunk(run, st, parent) ==
    LET children == DocumentAt(st, parent)[1].sitemap
        k == run.docs[parent].chunk + 1
    IN IF k > NumChunks(children)
       THEN [run EXCEPT !.docs[parent].st = "done", !.docs[parent].awaiting = {}]
       ELSE StartChunk([run EXCEPT !.docs[parent].chunk = k, !.docs[parent].awaiting = {}],
                       parent, Chunk(children, k))

\* a batch that ends with the first of its calls
FirstCallEnded(run, id) ==
    \/ run.docs[id].awaiting = {}
    \/ \E c \in run.docs[id].awaiting : Settled(run.docs[c])

\* await Promise.all(chunk.map(...)) of the index id has resolved
BatchEnded(run, id) == \A c \in run.docs[id].awaiting : Settled(run.docs[c])

RECURSIVE Continue(_, _)
\* the continuations that run before the next read or fetch ends: every
\* index whose awaited children have all ended goes on
Continue(run, st) ==
    LET ready == {id \in run.visited : run.docs[id].st = "resolving" /\ BatchEnded(run, id)}
    IN IF ready = {} THEN run
       ELSE Continue(NextChunk(run, st, CHOOSE id \in ready : TRUE), st)

\* a catch that lets the exception leave the crawler
Rethrown(run, id, failure) == [run EXCEPT !.docs[id].st = failure, !.threw = TRUE]

\* catch (error) { console.error(...) } and the return on !response.ok:
\* the call for the document ends
Caught(run, id, failure) == [run EXCEPT !.docs[id].st = failure]

\* a map that keeps the entry it has for a key
MapSetIfAbsent(m, e) ==
    IF \E i \in 1..Len(m) : m[i].url = e.url THEN m ELSE Append(m, e)

\* this.discoveredUrls.set(loc, entry)
MapSet(m, e) ==
    IF \E i \in 1..Len(m) : m[i].url = e.url
    THEN [i \in 1..Len(m) |-> IF m[i].url = e.url THEN e ELSE m[i]]
    ELSE Append(m, e)

RECURSIVE processUrlset(_, _, _)
\* SitemapCrawler.processUrlset: the map after the loop, and whether
\* new URL(loc) threw on the way
processUrlset(m, urls, t) ==
    IF urls = <<>> THEN [map |-> m, threw |-> FALSE]
    ELSE LET loc == urls[1].loc
         IN IF ~isPricingUrl(loc) THEN processUrlset(m, Tail(urls), t)
            ELSE IF ~ParseUrl(loc).ok THEN [map |-> m, threw |-> TRUE]
            ELSE processUrlset(
                    MapSet(m, DiscoveredUrl(loc, "sitemap", ParseUrl(loc).host, urls[1].lastmod, t)),
                    Tail(urls), t)

Run == [visited |-> visitedSitemaps, docs |-> docs, started |-> started, threw |-> threw]

SetRun(run) ==
    /\ visitedSitemaps' = run.visited
    /\ docs' = run.docs
    /\ started' = run.started
    /\ threw' = run.threw

notSitemapVars == <<pageVars, batchVars, fileVars, workerVars, manifestVars, mergeVars,
                    normalizeVars, discoveryVars, linkVars, reportVars>>

InitSitemap ==
    /\ site \in {<<st>> : st \in Sites}
    /\ spc = "find"
    /\ roots = <<>>
    /\ rootPos = 0
    /\ visitedSitemaps = {}
    /\ docs = [id \in SitemapIds |-> Unvisited]
    /\ started = <<>>
    /\ discoveredUrls = <<>>
    /\ now = 0
    /\ returned = <<>>
    /\ threw = FALSE
    /\ PageIdle /\ BatchIdle /\ FilesIdle /\ WorkersIdle /\ ManifestIdle
    /\ MergeIdle /\ NormalizeIdle /\ DiscoveryIdle /\ LinkIdle /\ ReportIdle

\* discoverPricingUrls up to its loop: the local files, or else the
\* configured remote locations
FindRoots ==
    /\ spc = "find"
    /\ roots' = Roots(findLocalSitemaps(site[1]), site[1].sitemapUrls)
    /\ spc' = "roots"
    /\ UNCHANGED <<site, rootPos, visitedSitemaps, docs, started, discoveredUrls, now, returned,
                   threw, notSitemapVars>>

\* the loop takes up its next root once the call for the one before has ended
StartRoot ==
    /\ spc = "roots"
    /\ rootPos < Len(roots)
    /\ rootPos > 0 => Settled(docs[roots[rootPos]])
    /\ rootPos' = rootPos + 1
    /\ SetRun(Process(Run, roots[rootPos + 1]))
    /\ UNCHANGED <<site, spc, roots, discoveredUrls, now, returned, notSitemapVars>>

\* the continuation of a call whose read or fetch has ended at time t: the
\* document fails, or its leaf entries are taken, or its first batch of
\* children is started; then every index that was waiting for it goes on.
\* Gives the crawler's state and its map of discovered URLs
ReadEnded(run0, st, map, id, outcome, t) ==
    LET run == [run0 EXCEPT !.docs[id].at = t]
    IN IF outcome # "ok"
       THEN [run |-> Continue(Caught(run, id, outcome), st), map |-> map]
       ELSE LET parsed == DocumentAt(st, id)[1]
            IN IF parsed.kind = "sitemapindex"
               THEN [run |-> Continue([run EXCEPT !.docs[id].st = "resolving"], st),
                     map |-> map]
               ELSE LET after == processUrlset(map, parsed.url, t)
                    IN [run |-> Continue(IF after.threw THEN Caught(run, id, "urlError")
                                         ELSE [run EXCEPT !.docs[id].st = "done"], st),
                        map |-> after.map]

\* the read or fetch of a document ends in one of the ways it can
CompleteRead(id) ==
    /\ docs[id].st = "reading"
    /\ now' = now + 1
    /\ \E outcome \in Outcomes(site[1], id) :
          \E after \in {ReadEnded(Run, site[1], discoveredUrls, id, outcome, now + 1)} :
             /\ SetRun(after.run)
             /\ discoveredUrls' = after.map
    /\ UNCHANGED <<site, spc, roots, rootPos, returned, notSitemapVars>>

\* after the loop: return Array.from(this.discoveredUrls.values())
ReturnUrls ==
    /\ spc = "roots"
    /\ rootPos = Len(roots)
    /\ rootPos > 0 => Settled(docs[roots[rootPos]])
    /\ IF threw
       THEN spc' = "threw" /\ returned' = returned
       ELSE spc' = "done" /\ returned' = <<discoveredUrls>>
    /\ UNCHANGED <<site, roots, rootPos, visitedSitemaps, docs, started, discoveredUrls, now,
                   threw, notSitemapVars>>

NextSitemap ==
    \/ FindRoots
    \/ StartRoot
    \/ \E id \in SitemapIds : CompleteRead(id)
    \/ ReturnUrls

SpecSitemap == InitSitemap /\ [][NextSitemap]_vars

(***************************************************************************)
(* Properties of the SitemapCrawler                                        *)
(***************************************************************************)
\* the locations of a document's leaf entries that match a target pattern
MatchingLocs(id) ==
    LET urls == DocumentAt(site[1], id)[1].url
    IN {urls[i].loc : i \in {j \in 1..Len(urls) : isPricingUrl(urls[j].loc)}}

\* the leaf sets that were read and parsed
LoadedUrlsets ==
    {id \in visitedSitemaps :
        /\ docs[id].st \in {"done", "urlError"}
        /\ DocumentAt(site[1], id)[1].kind = "urlset"}

ReturnedLocs == {returned[1][k].url : k \in 1..Len(returned[1])}

\* C16: the returned list holds exactly the matching locations of the leaf
\* sets that were read, each once and with source 'sitemap'; for the root
\* index with two leaf sets of three matching and two other locations it
\* has six entries.
C16_ExactlyMatchingLeafEntries ==
    returned # <<>> =>
        /\ ReturnedLocs = UNION {MatchingLocs(id) : id \in LoadedUrlsets}
        /\ \A k, l \in 1..Len(returned[1]) : returned[1][k].url = returned[1][l].url => k = l
        /\ \A k \in 1..Len(returned[1]) : returned[1][k].source = "sitemap"
        /\ (site[1] = TwoLevelSite /\ \A id \in visitedSitemaps : docs[id].st = "done")
              => Len(returned[1]) = 6

\* the local .xml documents that exist
LocalDocuments ==
    IF site[1].readable
    THEN {SitemapId(localSitemapDir, f) : f \in {g \in Range(site[1].files) : EndsWithXml(g)}}
    ELSE {}

C18_DocumentFailureContained ==
    /\ ~threw
    /\ returned # <<>> =>
          /\ ReturnedLocs \subseteq UNION {MatchingLocs(id) : id \in LoadedUrlsets}
          /\ \A id \in visitedSitemaps :
                (docs[id].st = "done" /\ DocumentAt(site[1], id)[1].kind = "sitemapindex") =>
                   \A i \in 1..Len(DocumentAt(site[1], id)[1].sitemap) :
                      LET target == ChildTarget(id, DocumentAt(site[1], id)[1].sitemap[i])
                      IN target \in visitedSitemaps /\ Settled(docs[target])
          /\ \A i \in 1..Len(roots) : roots[i] \in visitedSitemaps /\ Settled(docs[roots[i]])
          /\ \A id \in LoadedUrlsets : docs[id].st = "done" => MatchingLocs(id) \subseteq ReturnedLocs

\* a child timed out; its sibling in the batch, the child of a later batch
\* and the later root were processed and their four locations returned
C18_Witness ==
    /\ returned # <<>>
    /\ site[1] = RemoteSite
    /\ docs[SitemapId(VikingServer, "a.xml")].st = "timeout"
    /\ docs[SitemapId(VikingServer, "c.xml")].st = "done"
    /\ docs[SitemapId(VikingServer, "d.xml")].st = "done"
    /\ docs[SitemapId(VikingServer, "sitemap.xml")].st = "done"
    /\ docs[SitemapId(VikingCruisesServer, "sitemap.xml")].st = "done"
    /\ Len(returned[1]) = 4

\* C23: every document identifier is read or fetched at most once in a
\* run, however often and from however many indexes it is referred to: the
\* reads issued are those of the visited identifiers, one each, so that a
\* document that failed is not read again.
C23_EachDocumentReadAtMostOnce ==
    /\ \A i, j \in 1..Len(started) : started[i] = started[j] => i = j
    /\ Range(started) = visitedSitemaps
    /\ \A id \in SitemapIds : id \in visitedSitemaps <=> docs[id].st # "unvisited"

\* two indexes processed at the same time refer to one child, whose fetch
\* failed after both had been read, and the run ended with four fetches for
\* the second index and its children
C23_Witness ==
    /\ returned # <<>>
    /\ site[1] = NestedSite
    /\ docs[SitemapId(VikingServer, "a.xml")].st = "done"
    /\ docs[SitemapId(VikingServer, "b.xml")].st = "done"
    /\ docs[SitemapId(VikingServer, "c.xml")].st = "fetchError"
    /\ docs[SitemapId(VikingServer, "c.xml")].at > docs[SitemapId(VikingServer, "a.xml")].at
    /\ docs[SitemapId(VikingServer, "c.xml")].at > docs[SitemapId(VikingServer, "b.xml")].at
    /\ Len(started) = 7

\* a read or fetch has been issued and has not ended: CompleteRead is
\* enabled for some identifier
ReadPending == \E id \in SitemapIds : docs[id].st = "reading"

\* a step in which a read or fetch ends: the steps of CompleteRead
ReadEnds == now' = now + 1

\* the loop and the return are not held up, and a read or fetch that was
\* issued comes to an end: weak fairness of each action, written out for
\* CompleteRead with its enabling condition
LiveSitemap ==
    /\ SpecSitemap
    /\ WF_vars(FindRoots) /\ WF_vars(StartRoot) /\ WF_vars(ReturnUrls)
    /\ ([]<>(~ReadPending) \/ []<><<ReadEnds>>_vars)

\* C24: discoverPricingUrls ends: whatever the documents refer to, itself
\* and each other included, the call returns once the reads and fetches it
\* issued have ended.
C24_DiscoveryTerminates == <>(spc = "done")

\* the run over two indexes that refer to each other has returned
C24_Witness ==
    /\ spc = "done"
    /\ site[1] = NestedSite
    /\ docs[SitemapId(VikingServer, "a.xml")] =
          [docs[SitemapId(VikingServer, "a.xml")] EXCEPT !.st = "done", !.chunk = 2]
    /\ docs[SitemapId(VikingServer, "b.xml")] =
          [docs[SitemapId(VikingServer, "b.xml")] EXCEPT !.st = "done", !.chunk = 2]
    /\ Len(returned[1]) = 3

\* the index documents whose batches have begun
IndexesRead ==
    {id \in visitedSitemaps :
        /\ docs[id].st \in {"resolving", "done"}
        /\ DocumentAt(site[1], id)[1].kind = "sitemapindex"}

\* the identifiers under which the references of batch k of an index are
\* processed
BatchTargets(id, k) ==
    LET refs == Chunk(DocumentAt(site[1], id)[1].sitemap, k)
    IN {ChildTarget(id, refs[i]) : i \in 1..Len(refs)}

\* C25 as stated: when a batch of an index has begun, every document
\* referred to in its earlier batches has completed or failed.
C25_BarrierOverEveryReference ==
    \A id \in IndexesRead :
       \A j \in 1..(docs[id].chunk - 1) :
          \A target \in BatchTargets(id, j) : Settled(docs[target])

\* C25: an index goes through its references in consecutive batches of at
\* most maxConcurrentDiscovery, and awaits the calls of a batch before the
\* next: the documents whose processing its earlier batches began, with
\* everything the calls for them began, have completed or failed. A
\* reference to a document that another call (or the index itself) had
\* taken up before is not waited for.
C25_BarrierOverOwnCalls ==
    /\ \A id \in IndexesRead :
          /\ docs[id].chunk <= NumChunks(DocumentAt(site[1], id)[1].sitemap)
          /\ \A j \in 1..docs[id].chunk :
                /\ Cardinality(BatchTargets(id, j)) <= maxConcurrentDiscovery
                /\ BatchTargets(id, j) \subseteq visitedSitemaps
          /\ docs[id].own \subseteq UNION {BatchTargets(id, j) : j \in 1..docs[id].chunk}
          /\ docs[id].awaiting \subseteq docs[id].own \cap BatchTargets(id, docs[id].chunk)
          /\ \A c \in docs[id].own \ docs[id].awaiting : Settled(docs[c])
    /\ \A id \in SitemapIds :
          Settled(docs[id]) => docs[id].awaiting = {} /\ \A c \in docs[id].own : Settled(docs[c])

\* an index is in its second batch: the child its first batch began has
\* ended, and the other reference of its first batch, which another index
\* had taken up, is still being fetched
C25_Witness ==
    /\ site[1] = NestedSite
    /\ docs[SitemapId(VikingServer, "b.xml")].st = "resolving"
    /\ docs[SitemapId(VikingServer, "b.xml")].chunk = 2
    /\ docs[SitemapId(VikingServer, "b.xml")].own =
          {SitemapId(VikingCruisesServer, "c.xml"), SitemapId(VikingCruisesServer, "d.xml")}
    /\ docs[SitemapId(VikingServer, "b.xml")].awaiting = {SitemapId(VikingCruisesServer, "d.xml")}
    /\ docs[SitemapId(VikingCruisesServer, "c.xml")].st = "done"
    /\ docs[SitemapId(VikingServer, "c.xml")].st = "reading"
    /\ SitemapId(VikingServer, "c.xml") \in docs[SitemapId(VikingServer, "a.xml")].awaiting

\* the network fetches issued and not yet ended
OutstandingFetches == {id \in SitemapIds : StartsWithHttp(id) /\ docs[id].st = "reading"}

\* C26: at every moment at most maxConcurrentDiscovery network fetches are
\* outstanding, also when the children of a batch are indexes that resolve
\* children of their own.
C26_OutstandingFetchesBounded == Cardinality(OutstandingFetches) <= maxConcurrentDiscovery

\* the child references of a local index that were taken up under a local
\* file name whose read has failed
FailedLocalChildren ==
    {ref \in [parent : IndexesRead, loc : SitemapIds] :
        /\ ~StartsWithHttp(ref.parent)
        /\ \E i \in 1..Len(DocumentAt(site[1], ref.parent)[1].sitemap) :
              DocumentAt(site[1], ref.parent)[1].sitemap[i] = ref.loc
        /\ StartsWithHttp(ref.loc)
        /\ ChildTarget(ref.parent, ref.loc) \in docs[ref.parent].own
        /\ docs[ChildTarget(ref.parent, ref.loc)].st \in {"readError", "parseError"}}

\* C27: a child of a local index whose local document does not exist or
\* cannot be read is fetched from its remote location, and once the run has
\* returned the matching locations of that remote document are in its result.
C27_RemoteFallbackForLocalChild ==
    \A ref \in FailedLocalChildren :
        /\ ref.loc \in visitedSitemaps
        /\ (returned # <<>> /\ docs[ref.loc].st = "done") =>
              MatchingLocs(ref.loc) \subseteq ReturnedLocs

\* the positions of the leaf entries of a loaded leaf set that the loop of
\* processUrlset has put into the map: the matching entries, up to the first
\* one whose location new URL rejects
EntriesSet(id) ==
    LET urls == DocumentAt(site[1], id)[1].url
        bad == {i \in 1..Len(urls) : isPricingUrl(urls[i].loc) /\ ~ParseUrl(urls[i].loc).ok}
    IN {i \in 1..Len(urls) : isPricingUrl(urls[i].loc) /\ \A j \in bad : i < j}

\* the leaf entry for a location that was processed last: the document
\* whose read ended last among those that set it, and the last position in it
LastProcessed(loc) ==
    LET holders == {id \in LoadedUrlsets :
                       \E i \in EntriesSet(id) : DocumentAt(site[1], id)[1].url[i].loc = loc}
        id == CHOOSE h \in holders : \A g \in holders : docs[g].at <= docs[h].at
        urls == DocumentAt(site[1], id)[1].url
        pos == CHOOSE i \in EntriesSet(id) :
                   /\ urls[i].loc = loc
                   /\ \A j \in EntriesSet(id) : urls[j].loc = loc => j <= i
    IN [id |-> id, entry |-> urls[pos]]

\* C28: the map is keyed by the exact location string and the last entry
\* processed wins: a returned entry carries the lastModified of the leaf
\* entry for its location that was processed last, in one document or across
\* documents, and the discoveredAt of that processing.
C28_LastProcessedWins ==
    returned # <<>> =>
        \A k \in 1..Len(returned[1]) :
            /\ \A l \in 1..Len(returned[1]) : returned[1][k].url = returned[1][l].url => k = l
            /\ returned[1][k].lastModified = LastProcessed(returned[1][k].url).entry.lastmod
            /\ returned[1][k].discoveredAt = docs[LastProcessed(returned[1][k].url).id].at

\* one page listed twice in one leaf set and again in a leaf set that is
\* read later: the returned entry is that of the later document
C28_Witness ==
    /\ site = <<NestedSite>>
    /\ returned # <<>>
    /\ docs[SitemapId(VikingServer, "c.xml")].st = "done"
    /\ docs[SitemapId(VikingCruisesServer, "c.xml")].st = "done"
    /\ docs[SitemapId(VikingServer, "c.xml")].at < docs[SitemapId(VikingCruisesServer, "c.xml")].at
    /\ \E k \in 1..Len(returned[1]) :
          /\ returned[1][k].url = PageOn(Viking, "a", "pricing.html")
          /\ returned[1][k].lastModified = <<3>>
          /\ returned[1][k].discoveredAt = docs[SitemapId(VikingCruisesServer, "c.xml")].at
          /\ k = 1

\* C38: for an index read from a local document two distinct child
\* references are never collapsed into one document identifier, also when
\* they share a file name on different hosts: once the index is resolved,
\* distinct references were processed under distinct identifiers.
C38_DistinctChildrenNotCollapsed ==
    \A parent \in IndexesRead :
        ~StartsWithHttp(parent) =>
            LET refs == DocumentAt(site[1], parent)[1].sitemap
            IN \A i, j \in 1..Len(refs) :
                  refs[i] # refs[j] => ChildTarget(parent, refs[i]) # ChildTarget(parent, refs[j])

(***************************************************************************)
(* LinkCrawler                                                             *)
(*                                                                         *)
(* The crawl is sequential: one crawlPage call awaits at a time. A step    *)
(* is what runs between two awaits; the calls that await are kept on a     *)
(* stack of frames [url, depth, links, phase], phase "opening" before the  *)
(* page is rendered, "links" while its links are processed, "closing"      *)
(* while page.close() is awaited.                                          *)
(***************************************************************************)
MaxBudget == 3

Elsewhere == "www.example.com"

\* a host of another party whose name holds the text viking.com
Lookalike == "www.viking.com.example.org"

\* a page of a site: https://host/first, https://host/first/second, ...
Site(host, segments) ==
    Url("https:", host, "",
        [i \in 1..(2 * Len(segments)) |-> IF i % 2 = 1 THEN "/" ELSE segments[i \div 2]], <<>>)

\* LinkCrawler.seedUrls: a cruise type page and a destination page of the
\* main site and a cruise type page of the second site
seedUrls ==
    << Site(Viking, <<"cruises">>), Site(Viking, <<"oceans">>), Site(VikingCruises, <<"cruises">>) >>

\* the anchors with an http href on a page, in document order
LinksOf(url) ==
    CASE url = Site(Viking, <<"cruises">>) ->
            << Site(Viking, <<"cruises", "a", "pricing.html">>),
               Site(Viking, <<"cruises", "a">>),
               Site(Elsewhere, <<"cruises", "x", "pricing.html">>),
               Site(Viking, <<"about">>),
               Site(Elsewhere, <<"cruises", "x">>),
               Site(Lookalike, <<"cruises", "y">>),
               Site(Viking, <<"cruises", "b">>) >>
      [] url = Site(Viking, <<"cruises", "a">>) ->
            << Site(Viking, <<"cruises", "a", "pricing.html">>),
               Site(Viking, <<"cruises", "a", "c">>),
               Site(Viking, <<"cruises">>) >>
      [] url = Site(Viking, <<"cruises", "a", "c">>) ->
            << Site(Viking, <<"cruises", "c", "pricing">>),
               Site(Viking, <<"cruises", "a", "c", "d">>) >>
      [] url = Site(Viking, <<"cruises", "b">>) ->
            << Site(Viking, <<"cruises", "b", "Pricing.HTML">>) >>
      [] url = Site(Viking, <<"oceans">>) ->
            << Site(Viking, <<"cruises", "a">>),
               Site(Viking, <<"oceans", "e">>) >>
      [] url = Site(Viking, <<"oceans", "e">>) ->
            << Site(Viking, <<"oceans", "e", "prices.html">>) >>
      [] url = Site(VikingCruises, <<"cruises">>) ->
            << Site(VikingCruises, <<"cruises", "f", "pricing.html">>) >>
      [] url = Site(Viking, <<"cruises", "a", "pricing.html">>) ->
            << Site(Viking, <<"cruises", "g", "pricing.html">>),
               Site(Viking, <<"cruises", "g">>) >>
      [] OTHER -> <<>>

\* hostname.includes(name), over the host names of this world
Includes(hostname, name) ==
    CASE name = "viking.com" -> hostname \in {Viking, Lookalike}
      [] name = "vikingcruises.com" -> hostname = VikingCruises
      [] OTHER -> FALSE

\* LinkCrawler.isVikingDomain
isVikingDomain(hostname) ==
    \/ Includes(hostname, "viking.com")
    \/ Includes(hostname, "vikingcruises.com")
    \/ Includes(hostname, "vikingrivercruises.com")

\* cruisePathPatterns: /\/cruises?\//i and its like need a "/" on both sides
\* of the segment, /\/itinerar/i and /\/voyage/i only the one before
MatchesCruisePath(url) ==
    LET c == Chars(url)
    IN \E i \in 1..(Len(c) - 1) :
          /\ c[i] = "/"
          /\ \/ /\ c[i + 1] \in {"cruise", "cruises", "ocean", "oceans", "river", "rivers",
                                 "expedition", "expeditions", "destination", "destinations"}
                /\ i + 2 <= Len(c)
                /\ c[i + 2] = "/"
             \/ c[i + 1] \in {"itinerary.html", "voyages"}

\* a rule that follows links down to the depth cap itself
shouldFollowLinkToCap(url, depth, maxDepth) ==
    IF depth >= maxDepth THEN FALSE
    ELSE IF ~isVikingDomain(ParseUrl(url).host) THEN FALSE
    ELSE MatchesCruisePath(url)

\* LinkCrawler.shouldFollowLink
shouldFollowLink(url, depth, maxDepth) ==
    IF depth >= maxDepth - 1 THEN FALSE
    ELSE IF ~isVikingDomain(ParseUrl(url).host) THEN FALSE
    ELSE MatchesCruisePath(url)

\* LinkCrawler.addDiscoveredUrl
addDiscoveredUrl(m, url, t) ==
    IF \E i \in 1..Len(m) : m[i].url = url THEN m
    ELSE Append(m, DiscoveredUrl(url, "crawl", ParseUrl(url).host, <<>>, t))

\* a budget that is never exhausted
BudgetUnlimited(c) == FALSE

\* this.visitedPages.size >= maxPages
BudgetExhausted(c) == Cardinality(c.visited) >= c.maxPages

\* a visited set that never holds the URL asked for
NeverVisited(c, url) == FALSE

\* this.visitedPages.has(url)
AlreadyVisited(c, url) == url \in c.visited

\* crawlPage up to its first await: it returns at once, or marks the URL
\* visited and awaits browser.newPage(). c is the crawler's state
\* [visited, discovered, stack, seedPos, lpc, maxPages, maxDepth, t]
EnterPage(c, url, depth) ==
    IF AlreadyVisited(c, url) \/ BudgetExhausted(c) THEN c
    ELSE IF ~isVikingDomain(ParseUrl(url).host) THEN c
    ELSE LET marked == [c EXCEPT !.visited = @ \cup {url}]
             found == IF isPricingUrl(url)
                      THEN [marked EXCEPT !.discovered = addDiscoveredUrl(@, url, c.t)]
                      ELSE marked
         IN IF depth >= c.maxDepth THEN found
            ELSE [found EXCEPT !.stack = Append(@, [url |-> url, depth |-> depth,
                                                     links |-> <<>>, phase |-> "opening"])]

RECURSIVE LinksLoop(_)
\* for (const link of links) of the innermost call, until it awaits a
\* crawlPage call that opens a page, or ends and awaits page.close()
LinksLoop(c) ==
    LET n == Len(c.stack)
        f == c.stack[n]
    IN IF f.links = <<>> \/ BudgetExhausted(c)
       THEN [c EXCEPT !.stack[n].phase = "closing"]
       ELSE LET link == f.links[1]
                rest == [c EXCEPT !.stack[n].links = Tail(@)]
            IN IF isPricingUrl(link)
               THEN LinksLoop([rest EXCEPT !.discovered = addDiscoveredUrl(@, link, c.t)])
               ELSE IF shouldFollowLink(link, f.depth, c.maxDepth)
                    THEN LET entered == EnterPage(rest, link, f.depth + 1)
                         IN IF Len(entered.stack) > n THEN entered ELSE LinksLoop(entered)
                    ELSE LinksLoop(rest)

RECURSIVE SeedLoop(_)
\* for (const seedUrl of this.seedUrls), until a crawlPage call awaits or
\* the loop ends and browser.close() is awaited
SeedLoop(c) ==
    IF c.seedPos = Len(seedUrls) \/ BudgetExhausted(c)
    THEN [c EXCEPT !.lpc = "closingBrowser"]
    ELSE LET entered == EnterPage([c EXCEPT !.seedPos = @ + 1], seedUrls[c.seedPos + 1], 0)
         IN IF entered.stack # <<>> THEN entered ELSE SeedLoop(entered)

\* a catch that lets the failure of a page end the calls above it too
GotoFailureUnwinds(c) ==
    [c EXCEPT !.stack = [i \in 1..Len(c.stack) |-> [c.stack[i] EXCEPT !.phase = "closing",
                                                                         !.links = <<>>]]]

\* await this.browser!.newPage() rejects: crawlPage has no handler around
\* it, so the exception reaches the caller: the try block of the calling
\* crawlPage, which goes to its catch and finally, or the try block of the
\* seed loop, which goes on with the next seed
NewPageFailure(c) ==
    LET popped == [c EXCEPT !.stack = Front(@)]
    IN IF popped.stack = <<>> THEN SeedLoop(popped)
       ELSE [popped EXCEPT !.stack[Len(popped.stack)].phase = "closing",
                           !.stack[Len(popped.stack)].links = <<>>]

\* a catch after which the call returns without its finally block
GotoFailureSkipsFinally(c) ==
    LET popped == [c EXCEPT !.stack = Front(@)]
    IN IF popped.stack = <<>> THEN SeedLoop(popped) ELSE LinksLoop(popped)

\* catch (error) { console.log(`Could not load: ${url}`) }: the call goes
\* on to its finally block
GotoFailureCaught(c) == [c EXCEPT !.stack[Len(c.stack)].phase = "closing"]

Crawl ==
    [visited |-> visitedPages, discovered |-> crawlDiscoveredUrls, stack |-> stack,
     seedPos |-> seedPos, lpc |-> lpc, maxPages |-> crawlOptions[1].maxPages,
     maxDepth |-> crawlOptions[1].maxDepth, t |-> clock + 1]

SetCrawl(c) ==
    /\ visitedPages' = c.visited
    /\ crawlDiscoveredUrls' = c.discovered
    /\ stack' = c.stack
    /\ seedPos' = c.seedPos
    /\ lpc' = c.lpc
    /\ clock' = c.t

notLinkVars == <<pageVars, batchVars, fileVars, workerVars, manifestVars, mergeVars,
                 normalizeVars, discoveryVars, sitemapVars, reportVars>>

InitLink ==
    /\ crawlOptions \in {<<[maxPages |-> p, maxDepth |-> d]>> :
                            p \in (0..MaxBudget) \cup {100}, d \in 1..3}
    /\ lpc = "launch"
    /\ browser = "none"
    /\ seedPos = 0
    /\ visitedPages = {}
    /\ crawlDiscoveredUrls = <<>>
    /\ stack = <<>>
    /\ openPages = 0
    /\ rendered = <<>>
    /\ clock = 0
    /\ crawlReturned = <<>>
    /\ PageIdle /\ BatchIdle /\ FilesIdle /\ WorkersIdle /\ ManifestIdle
    /\ MergeIdle /\ NormalizeIdle /\ DiscoveryIdle /\ SitemapIdle /\ ReportIdle

\* this.browser = await chromium.launch(...): the seed loop starts, or the
\* launch fails and the exception leaves discoverPricingUrls
Launch ==
    /\ lpc = "launch"
    /\ \/ /\ browser' = "open"
          /\ SetCrawl(SeedLoop([Crawl EXCEPT !.lpc = "crawl"]))
       \/ /\ browser' = "none"
          /\ lpc' = "threw"
          /\ UNCHANGED <<visitedPages, crawlDiscoveredUrls, stack, seedPos, clock>>
    /\ UNCHANGED <<crawlOptions, openPages, rendered, crawlReturned, notLinkVars>>

\* the innermost call gets its page and navigates: the page loads and its
\* links are processed, or the links cannot be extracted, or the
\* navigation fails, or the browser gives no page
Render ==
    /\ lpc = "crawl"
    /\ stack # <<>>
    /\ Last(stack).phase = "opening"
    /\ \E outcome \in {"ok", "evaluateFails", "gotoFails", "noPage"} :
          /\ openPages' = IF outcome = "noPage" THEN openPages ELSE openPages + 1
          /\ rendered' = Append(rendered, [url |-> Last(stack).url, depth |-> Last(stack).depth,
                                           outcome |-> outcome])
          /\ SetCrawl(
                IF outcome = "noPage" THEN NewPageFailure(Crawl)
                ELSE IF outcome = "gotoFails" THEN GotoFailureCaught(Crawl)
                ELSE LinksLoop([Crawl EXCEPT
                        !.stack[Len(stack)].phase = "links",
                        !.stack[Len(stack)].links =
                            IF outcome = "ok" THEN LinksOf(Last(stack).url) ELSE <<>>]))
    /\ UNCHANGED <<crawlOptions, browser, crawlReturned, notLinkVars>>

\* finally { await page.close() }: the call returns and its caller, a
\* crawlPage call or the seed loop, goes on
ClosePage ==
    /\ lpc = "crawl"
    /\ stack # <<>>
    /\ Last(stack).phase = "closing"
    /\ openPages' = openPages - 1
    /\ LET popped == [Crawl EXCEPT !.stack = Front(@)]
       IN SetCrawl(IF popped.stack = <<>> THEN SeedLoop(popped)
                   ELSE IF Last(popped.stack).phase = "closing" THEN popped
                   ELSE LinksLoop(popped))
    /\ UNCHANGED <<crawlOptions, browser, rendered, crawlReturned, notLinkVars>>

\* finally { await this.browser.close() }, then the values of the map are
\* returned
CloseBrowserAndReturn ==
    /\ lpc = "closingBrowser"
    /\ browser' = "closed"
    /\ crawlReturned' = <<crawlDiscoveredUrls>>
    /\ lpc' = "done"
    /\ UNCHANGED <<crawlOptions, seedPos, visitedPages, crawlDiscoveredUrls, stack, openPages,
                   rendered, clock, notLinkVars>>

NextLink == Launch \/ Render \/ ClosePage \/ CloseBrowserAndReturn

SpecLink == InitLink /\ [][NextLink]_vars

(***************************************************************************)
(* crawlPage on its own: one call with any URL and depth, made on a        *)
(* crawler whose browser is open and that has no seed left to try           *)
(***************************************************************************)
\* the URLs crawlPage is called with: pages to follow, a target page, pages
\* of other parties
CallUrls ==
    { Site(Viking, <<"cruises">>), Site(Viking, <<"cruises", "a">>),
      Site(Viking, <<"cruises", "a", "c">>), Site(Viking, <<"cruises", "a", "pricing.html">>),
      Site(Elsewhere, <<"cruises", "x">>), Site(Lookalike, <<"cruises", "y">>) }

InitCrawlPage ==
    /\ crawlOptions \in {<<[maxPages |-> p, maxDepth |-> d]>> : p \in {0, MaxBudget, 100}, d \in 1..3}
    /\ lpc = "call"
    /\ browser = "open"
    /\ seedPos = Len(seedUrls)
    /\ visitedPages = {}
    /\ crawlDiscoveredUrls = <<>>
    /\ stack = <<>>
    /\ openPages = 0
    /\ rendered = <<>>
    /\ clock = 0
    /\ crawlReturned = <<>>
    /\ PageIdle /\ BatchIdle /\ FilesIdle /\ WorkersIdle /\ ManifestIdle
    /\ MergeIdle /\ NormalizeIdle /\ DiscoveryIdle /\ SitemapIdle /\ ReportIdle

\* await this.crawlPage(url, depth, maxDepth, maxPages): the call returns at
\* once, or awaits its page
CallCrawlPage ==
    /\ lpc = "call"
    /\ \E url \in CallUrls, depth \in 0..3 :
          LET entered == EnterPage([Crawl EXCEPT !.lpc = "crawl"], url, depth)
          IN SetCrawl(IF entered.stack # <<>> THEN entered ELSE SeedLoop(entered))
    /\ UNCHANGED <<crawlOptions, browser, openPages, rendered, crawlReturned, notLinkVars>>

NextCrawlPage == CallCrawlPage \/ Render \/ ClosePage \/ CloseBrowserAndReturn

SpecCrawlPage == InitCrawlPage /\ [][NextCrawlPage]_vars

(***************************************************************************)
(* Properties of the LinkCrawler                                           *)
(***************************************************************************)
\* the URLs for which a crawlPage call asked the browser for a page
PagesAsked == {rendered[i].url : i \in 1..Len(rendered)}

\* C19: the page budget caps the whole crawl. In every state the visited
\* set holds at most maxPages URLs, at most maxPages pages have been
\* rendered over all seeds and depths, each of them a visited URL rendered
\* once, and a crawl whose budget is reached does not throw: when it is
\* over, discoverPricingUrls has returned the URLs found so far.
C19_PageBudgetIsHardCap ==
    lpc # "idle" =>
        /\ Cardinality(visitedPages) <= crawlOptions[1].maxPages
        /\ Len(rendered) <= crawlOptions[1].maxPages
        /\ PagesAsked \subseteq visitedPages
        /\ Cardinality(PagesAsked) = Len(rendered)
        /\ BudgetExhausted(Crawl) /\ rendered # <<>> => lpc # "threw"
        /\ BudgetExhausted(Crawl) /\ lpc = "done" => crawlReturned = <<crawlDiscoveredUrls>>

\* a crawl that the budget ended: it is over with the budget reached, a
\* seed never tried, a link of a rendered page never visited, and targets
\* returned
C19_Witness ==
    /\ lpc = "done"
    /\ crawlOptions[1].maxPages = 2
    /\ Cardinality(visitedPages) = 2
    /\ Len(rendered) = 2
    /\ seedPos < Len(seedUrls)
    /\ rendered[1].outcome = "ok"
    /\ Site(Viking, <<"cruises", "b">>) \notin visitedPages
    /\ crawlReturned # <<>>
    /\ crawlReturned[1] # <<>>

\* the URLs of the targets recorded so far
TargetsFound == {crawlDiscoveredUrls[i].url : i \in 1..Len(crawlDiscoveredUrls)}

\* every link of the page rendered as the i-th was handled: a target link
\* was recorded, a link to follow was visited
LinksHandled(i) ==
    LET asked == rendered[i]
        links == LinksOf(asked.url)
    IN \A k \in 1..Len(links) :
          IF isPricingUrl(links[k]) THEN links[k] \in TargetsFound
          ELSE shouldFollowLink(links[k], asked.depth, crawlOptions[1].maxDepth)
                  => links[k] \in visitedPages

\* no call of browser.newPage() was rejected
EveryPageOpened == \A i \in 1..Len(rendered) : rendered[i].outcome # "noPage"

C29_VisitedOnceRenderedOnce ==
    /\ [](\A i, j \in 1..Len(rendered) : rendered[i].url = rendered[j].url => i = j)
    /\ [][/\ visitedPages \subseteq visitedPages'
          /\ Len(rendered') > Len(rendered) =>
                /\ Len(rendered') = Len(rendered) + 1
                /\ rendered'[Len(rendered')].url \in visitedPages \ PagesAsked]_vars

\* a page that two rendered pages link to, one below the first seed and one
\* the second seed itself: it was rendered once, below the first, and the
\* second seed's loop went on to its next link
C29_Witness ==
    /\ lpc = "done"
    /\ crawlOptions[1] = [maxPages |-> 100, maxDepth |-> 3]
    /\ \E i, j, k \in 1..Len(rendered) :
          /\ i < j /\ j < k
          /\ rendered[i] = [url |-> Site(Viking, <<"cruises">>), depth |-> 0, outcome |-> "ok"]
          /\ rendered[j].url = Site(Viking, <<"cruises", "a">>)
          /\ rendered[j].depth = 1
          /\ rendered[k] = [url |-> Site(Viking, <<"oceans">>), depth |-> 0, outcome |-> "ok"]
    /\ Cardinality({n \in 1..Len(rendered) : rendered[n].url = Site(Viking, <<"cruises", "a">>)}) = 1
    /\ Site(Viking, <<"oceans", "e">>) \in PagesAsked

\* the hosts of the monitored sites
InDomainFamily(hostname) == hostname \in {Viking, VikingCruises}

\* C30: crawlPage on a URL whose host is outside the allowed domain family
\* returns at once: such a URL is never in the visited set, where it would
\* count against the page budget, and no page is rendered for it.
C30_OutsideFamilyRejected ==
    \A url \in visitedPages \cup PagesAsked : InDomainFamily(ParseUrl(url).host)

FollowedFromParent(i) ==
    \E j \in 1..(i - 1) :
        /\ rendered[j].depth = rendered[i].depth - 1
        /\ rendered[j].outcome = "ok"
        /\ \E k \in 1..Len(LinksOf(rendered[j].url)) : LinksOf(rendered[j].url)[k] = rendered[i].url
        /\ InDomainFamily(ParseUrl(rendered[i].url).host)
        /\ MatchesCruisePath(rendered[i].url)

\* C32: depth is a hard cap. No page is rendered at depth maxDepth or
\* deeper, a page below a seed is rendered only as a link of a page one
\* level up that is in the domain family and matches the cruise-path
\* heuristic, and a crawl that rendered pages does not end in an error.
C32_DepthIsHardCap ==
    lpc # "idle" =>
        /\ \A i \in 1..Len(rendered) :
              /\ rendered[i].depth < crawlOptions[1].maxDepth
              /\ rendered[i].depth > 0 => FollowedFromParent(i)
        /\ rendered # <<>> => lpc # "threw"

\* C34: every URL that discoverPricingUrls returns matches a target pattern
\* and has a host inside the domain family, whether crawlPage was called on
\* it or it was a link of a rendered page.
C34_ReturnedTargetsInFamily ==
    crawlReturned # <<>> =>
        \A k \in 1..Len(crawlReturned[1]) :
            /\ isPricingUrl(crawlReturned[1][k].url)
            /\ InDomainFamily(ParseUrl(crawlReturned[1][k].url).host)
            /\ InDomainFamily(crawlReturned[1][k].domain)

\* C36: for maxDepth >= 1 crawlPage is entered with depth <= maxDepth - 1
\* only: the links of a page rendered at depth maxDepth - 1 are not
\* followed, so the stop on depth >= maxDepth is never taken, and every URL
\* that is marked visited awaits its page or has been given one.
C36_DepthStopNeverTaken ==
    lpc # "idle" =>
        /\ \A i \in 1..Len(rendered) : rendered[i].depth <= crawlOptions[1].maxDepth - 1
        /\ \A i \in 1..Len(stack) : stack[i].depth <= crawlOptions[1].maxDepth - 1
        /\ visitedPages = PagesAsked \cup {stack[i].url : i \in 1..Len(stack)}

\* a page rendered at depth maxDepth - 1 with a link into the domain family
\* that matches the heuristic: the link was not visited
C36_Witness ==
    /\ lpc = "done"
    /\ crawlOptions[1] = [maxPages |-> 100, maxDepth |-> 2]
    /\ \E i \in 1..Len(rendered) :
          rendered[i] = [url |-> Site(Viking, <<"cruises", "a">>), depth |-> 1, outcome |-> "ok"]
    /\ MatchesCruisePath(Site(Viking, <<"cruises", "a", "c">>))
    /\ isVikingDomain(ParseUrl(Site(Viking, <<"cruises", "a", "c">>)).host)
    /\ Site(Viking, <<"cruises", "a", "c">>) \notin visitedPages
    /\ Site(Viking, <<"cruises", "b">>) \in PagesAsked

\* discoverPricingUrls awaits a call of the browser: the launch, a page,
\* the closing of a page or of the browser
CrawlPending == lpc \in {"launch", "crawl", "closingBrowser"}

\* the awaited call ends: the crawl changes its position, a page request is
\* answered, or a page is closed
AwaitEnds == lpc' # lpc \/ Len(rendered') > Len(rendered) \/ openPages' < openPages

\* the crawl under fair scheduling: an awaited browser call ends
LiveLink ==
    /\ SpecLink
    /\ ([]<>(~CrawlPending) \/ []<><<AwaitEnds>>_vars)

\* discoverPricingUrls has returned or thrown
CrawlOver == lpc \in {"done", "threw"}

\* C37: every page crawlPage opened is closed in the end, whether its
\* rendering succeeded or failed; the browser is closed before
\* discoverPricingUrls returns or throws; and at any moment at most
\* recursion depth plus one pages are open.
C37_PagesAndBrowserClosed ==
    /\ [](openPages <= (IF stack = <<>> THEN 0 ELSE Last(stack).depth + 1))
    /\ [](CrawlOver => openPages = 0 /\ browser # "open")
    /\ \A n \in 1..3 : (openPages = n) ~> (openPages < n)
    /\ <>CrawlOver

\* three pages are open at once, the innermost after a failed navigation
C37_Witness ==
    /\ openPages = 3
    /\ Len(stack) = 3
    /\ Last(stack).phase = "closing"
    /\ Last(rendered).outcome = "gotoFails"
    /\ \E i \in 1..Len(rendered) : rendered[i].outcome = "noPage"

(***************************************************************************)
(* writeResults: the summary and the failure groups it prints              *)
(***************************************************************************)
MaxResults == 3

\* pages whose results carry each kind of error string, alone and combined
ReportBehaviours ==
    { [GoodPage EXCEPT !.stateroom = "none", !.navMs = LoadTimeLimit],
      [GoodPage EXCEPT !.goto = "404"],
      [GoodPage EXCEPT !.goto = "500", !.restMs = 1],
      [GoodPage EXCEPT !.panel = "visible"],
      [GoodPage EXCEPT !.panel = "visible", !.dates = "none"],
      [GoodPage EXCEPT !.errText = TRUE],
      [GoodPage EXCEPT !.dates = "none", !.prices = "none"],
      [GoodPage EXCEPT !.prices = "none"],
      [GoodPage EXCEPT !.goto = "throw"] }

\* the i-th URL of a run
ReportUrl(i) ==
    [url |-> "https://www.viking.com/cruises/ocean/" \o ToString(i) \o "/pricing.html",
     domain |-> "www.viking.com"]

\* the results arrays of runs over at most MaxResults URLs
ResultLists ==
    UNION { { [i \in 1..k |-> testPricingPage(ReportUrl(i), f[i])] :
                f \in [1..k -> ReportBehaviours] } : k \in 0..MaxResults }

\* the matchers of writeResults that occur in one error string
MatchersIn(error) ==
    CASE error = "HTTP 404" -> {"HTTP 404"}
      [] error = "HTTP 500" -> {"HTTP 5"}
      [] error = "Unavailable panel visible: Call for fares" -> {"Unavailable panel visible"}
      [] error = "No departure dates found" -> {"No departure dates"}
      [] error = "No valid prices found" -> {"No valid prices"}
      [] error = "page.goto: Timeout 10000ms exceeded" -> {"Timeout"}
      [] error = "page.textContent: Timeout 5000ms exceeded" -> {"Timeout"}
      [] OTHER -> {}

\* r.errors.join(', ').includes(matcher): no matcher holds ", ", so a match
\* lies inside one of the joined strings
ErrorStrIncludes(errors, matcher) ==
    \E i \in 1..Len(errors) : matcher \in MatchersIn(errors[i])

\* the if / else if chain of writeResults
errorTypeOf(r) ==
    IF ErrorStrIncludes(r.errors, "HTTP 404") THEN "HTTP 404 (Page Not Found)"
    ELSE IF ErrorStrIncludes(r.errors, "HTTP 5") THEN "HTTP 5xx (Server Error)"
    ELSE IF ErrorStrIncludes(r.errors, "Unavailable panel visible")
         THEN "Pricing Unavailable (Call for fares)"
    ELSE IF ErrorStrIncludes(r.errors, "No departure dates") THEN "No Departure Dates"
    ELSE IF ErrorStrIncludes(r.errors, "No valid prices") THEN "No Valid Prices"
    ELSE IF ErrorStrIncludes(r.errors, "timeout") \/ ErrorStrIncludes(r.errors, "Timeout")
         THEN "Page Load Timeout"
    ELSE "Other"

\* if (!errorGroups.has(errorType)) errorGroups.set(errorType, []);
\* errorGroups.get(errorType).push(r): the map as its entries in insertion order
PushToGroup(groups, errorType, r) ==
    IF \E k \in 1..Len(groups) : groups[k].errorType = errorType
    THEN [k \in 1..Len(groups) |->
            IF groups[k].errorType = errorType
            THEN [groups[k] EXCEPT !.urls = Append(@, r)]
            ELSE groups[k]]
    ELSE Append(groups, [errorType |-> errorType, urls |-> <<r>>])

RECURSIVE errorGroups(_)
\* for (const r of failedResults) { ... }
errorGroups(failedResults) ==
    IF failedResults = <<>> THEN <<>>
    ELSE PushToGroup(errorGroups(Front(failedResults)), errorTypeOf(Last(failedResults)),
                     Last(failedResults))

\* the entries left in the order of the map
InInsertionOrder(groups) == groups

RECURSIVE SortBySize(_)
\* entries.sort((a, b) => b[1].length - a[1].length): a stable sort, the
\* larger group first
SortBySize(groups) ==
    IF groups = <<>> THEN <<>>
    ELSE LET sortedFront == SortBySize(Front(groups))
             g == Last(groups)
             before == {k \in 1..Len(sortedFront) : Len(sortedFront[k].urls) >= Len(g.urls)}
             n == Cardinality(before)
         IN SubSeq(sortedFront, 1, n) \o <<g>> \o SubSeq(sortedFront, n + 1, Len(sortedFront))

\* the groups writeResults prints, in order; nothing when no result failed
PrintedGroups(rs) ==
    LET failedResults == FilterSeq(rs, FailedOf(rs))
    IN IF Len(failedResults) > 0 THEN SortBySize(errorGroups(failedResults)) ELSE <<>>

InitReport ==
    /\ reportResults \in ResultLists
    /\ sortedGroups = <<>>
    /\ PageIdle /\ BatchIdle /\ FilesIdle /\ WorkersIdle /\ ManifestIdle /\ CrawlersIdle

\* writeResults(results): both files are written and the summary is printed
WriteResultsAndPrint ==
    /\ sortedGroups = <<>>
    /\ WriteResults(reportResults)
    /\ sortedGroups' = <<PrintedGroups(reportResults)>>
    /\ UNCHANGED <<reportResults, pageVars, batchVars, workerVars, manifestVars, crawlerVars>>

NextReport == WriteResultsAndPrint

SpecReport == InitReport /\ [][NextReport]_vars

\* the categories in their order of priority, each with its matchers
Categories ==
    << [errorType |-> "HTTP 404 (Page Not Found)", matchers |-> {"HTTP 404"}],
       [errorType |-> "HTTP 5xx (Server Error)", matchers |-> {"HTTP 5"}],
       [errorType |-> "Pricing Unavailable (Call for fares)",
        matchers |-> {"Unavailable panel visible"}],
       [errorType |-> "No Departure Dates", matchers |-> {"No departure dates"}],
       [errorType |-> "No Valid Prices", matchers |-> {"No valid prices"}],
       [errorType |-> "Page Load Timeout", matchers |-> {"timeout", "Timeout"}] >>

\* the categories a result's errors match
Matching(r) ==
    {k \in 1..Len(Categories) : \E m \in Categories[k].matchers : ErrorStrIncludes(r.errors, m)}

\* the first category in priority order that matches, else Other
FirstMatch(r) ==
    IF Matching(r) = {} THEN "Other"
    ELSE Categories[CHOOSE k \in Matching(r) : \A j \in Matching(r) : k <= j].errorType

\* the groups in which a result is listed
GroupsOf(groups, r) ==
    {k \in 1..Len(groups) : \E n \in 1..Len(groups[k].urls) : groups[k].urls[n] = r}

RECURSIVE SumOfSizes(_)
SumOfSizes(groups) ==
    IF groups = <<>> THEN 0 ELSE Len(groups[1].urls) + SumOfSizes(Tail(groups))

\* C21: every failed result is listed in exactly one group, the group of
\* the first category in priority order that its errors match, else Other;
\* no passed result is listed; the group sizes sum to the number of failed
\* results; and the groups are printed in non-increasing order of size,
\* groups of equal size in the order in which they first occurred.
C21_FailureGroups ==
    sortedGroups # <<>> =>
        LET groups == sortedGroups[1]
            rs == reportResults
        IN /\ \A i \in 1..Len(rs) :
                 IF rs[i].passed THEN GroupsOf(groups, rs[i]) = {}
                 ELSE \E k \in 1..Len(groups) :
                         /\ GroupsOf(groups, rs[i]) = {k}
                         /\ groups[k].errorType = FirstMatch(rs[i])
           /\ \A j, k \in 1..Len(groups) : j # k => groups[j].errorType # groups[k].errorType
           /\ SumOfSizes(groups) = Cardinality({i \in 1..Len(rs) : ~rs[i].passed})
           /\ \A k \in 1..(Len(groups) - 1) : Len(groups[k].urls) >= Len(groups[k + 1].urls)
           /\ \A j, k \in 1..Len(groups) :
                 j < k /\ Len(groups[j].urls) = Len(groups[k].urls) =>
                    \E a \in 1..Len(rs) :
                       /\ rs[a] \in Range(groups[j].urls)
                       /\ \A b \in 1..Len(rs) : rs[b] \in Range(groups[k].urls) => a < b

\* results with the errors 'HTTP 404', 'HTTP 500' and 'Unavailable panel
\* visible: ...' were printed as three groups of one result each
C21_Witness ==
    /\ sortedGroups # <<>>
    /\ Len(reportResults) = 3
    /\ reportResults[1].errors = <<"HTTP 404">>
    /\ reportResults[2].errors = <<"HTTP 500">>
    /\ reportResults[3].errors = <<"Unavailable panel visible: Call for fares">>
    /\ [k \in 1..Len(sortedGroups[1]) |-> Len(sortedGroups[1][k].urls)] = <<1, 1, 1>>
    /\ sortedGroups[1][1].errorType = "HTTP 404 (Page Not Found)"
    /\ sortedGroups[1][3].errorType = "Pricing Unavailable (Call for fares)"

RECURSIVE LoadTimeOfFirst(_, _)
\* the load times of the first n results, added up
LoadTimeOfFirst(rs, n) == IF n = 0 THEN 0 ELSE LoadTimeOfFirst(rs, n - 1) + rs[n].loadTimeMs

\* C22: the summary written for a list of results has totalTested = number
\* of results = passed + failed, passed and failed being the numbers of
\* results with passed = true and passed = false, and avgLoadTimeMs is the
\* sum of the load times divided by the number of results, 0 for no results.
C22_SummaryTotals ==
    resultsJson # <<>> /\ sortedGroups # <<>> =>
        LET summary == resultsJson[1]
            rs == reportResults
        IN /\ summary.totalTested = Len(rs)
           /\ summary.passed = Cardinality({i \in 1..Len(rs) : rs[i].passed})
           /\ summary.failed = Cardinality({i \in 1..Len(rs) : ~rs[i].passed})
           /\ summary.totalTested = summary.passed + summary.failed
           /\ summary.avgLoadTimeMs[2] > 0
           /\ summary.avgLoadTimeMs[1] * Len(rs) =
                 LoadTimeOfFirst(rs, Len(rs)) * summary.avgLoadTimeMs[2]
           /\ Len(rs) = 0 => summary.avgLoadTimeMs[1] = 0

\* a summary of three results, one passed and two failed, whose load
\* times differ and do not add up to a multiple of three
C22_Witness ==
    /\ resultsJson # <<>>
    /\ sortedGroups # <<>>
    /\ Len(reportResults) = 3
    /\ resultsJson[1].passed = 1
    /\ resultsJson[1].failed = 2
    /\ resultsJson[1].avgLoadTimeMs = <<3 * LoadTimeLimit - 1, 3>>
    /\ reportResults[1].loadTimeMs # reportResults[2].loadTimeMs

====
